---- MODULE Spec2Model ----
(***************************************************************************)
(* rustwall packet pipeline (src/src/utils.rs): Ethernet demux, IPv4       *)
(* reassembly of fragmented UDP, policy callout, post-policy IPv4          *)
(* fragmenter and the bounded outbound frame queue.                        *)
(*                                                                         *)
(* Sizes are in bytes.  The constants module and the wire library          *)
(* (smoltcp with the FragmentSet extension) are not part of utils.rs; the  *)
(* values and the library behaviour used here follow the specification     *)
(* and are scaled down so that every case of the code is reachable.        *)
(***************************************************************************)
EXTENDS Integers, Sequences, FiniteSets, TLC

VARIABLES
    queue,      \* PACKETS_RX / PACKETS_TX: the outbound queue of one direction
    fragments,  \* FRAGMENTS_RX / FRAGMENTS_TX: the reassembly table of one direction
    SEED,       \* static mut SEED of get_pseudorandom_packet_id
    MS,         \* static mut MS of timestamp
    th,         \* per thread: the process_ethernet invocation it runs
    locks,      \* holder of each lock, or NoThread
    calls,      \* process_ethernet invocations started so far
    trace,      \* history, kept when trace.on: the invocations that returned, in
                \* order, each with its input, result and number of frames pushed
    fz,         \* fragmenter / reassembly round trip on one UDP packet
    ep,         \* the entry points in flight on the component's threads, both
                \* directions and the boundary glue, with the locks they hold
    glue        \* the boundary glue with its data: the iterator over the
                \* driver's frames, the buffer locks, the last operation

vars == << queue, fragments, SEED, MS, th, locks, calls, trace, fz, ep, glue >>

(***************************************************************************)
(* constants::*                                                            *)
(***************************************************************************)
MTU_UDP == 24
MAX_ENQUEUED_PACKETS == 2
SUPPORTED_FRAGMENTS == 2
MAX_REASSEMBLED_FRAGMENT_SIZE == 120
MAX_UDP_PAYLOAD_SIZE == 72
MAX_UDP_PACKET_SIZE == 80
ETH_CRC_LEN == 4
\* wire sizes (smoltcp: Ipv4Repr::buffer_len, UdpRepr header)
IPV4_HEADER_LEN == 20
UDP_HDR == 8
\* staleness threshold of FragmentSet::get_packet, in timestamp ticks
STALE_AFTER == 2

U16 == 65536
\* the shared buffers' capacity, scaled
BUFFER_SIZE == 4
\* stands for 2^32 or 2^64, the number of values of usize
USIZE == 1073741824

NoPacket == [none |-> TRUE]

(***************************************************************************)
(* Small helpers on byte sequences                                         *)
(***************************************************************************)
RECURSIVE SumSeq(_)
SumSeq(s) == IF s = <<>> THEN 0 ELSE Head(s) + SumSeq(Tail(s))

\* &v[a..b] of Rust: bytes a .. b-1, zero based
Slice(s, a, b) == SubSeq(s, a + 1, b)

RECURSIVE Flatten(_)
Flatten(ss) == IF ss = <<>> THEN <<>> ELSE Head(ss) \o Flatten(Tail(ss))

(***************************************************************************)
(* Wire codec: UDP                                                         *)
(***************************************************************************)
\* 16-bit checksum over the pseudo header and the UDP bytes with the
\* checksum field (bytes 7 and 8) left out
UdpChecksumOf(bytes, src, dst) ==
    LET body == SubSeq(bytes, 1, 6) \o SubSeq(bytes, 9, Len(bytes))
    IN  (U16 - 1) - ((src + dst + 17 + Len(bytes) + SumSeq(body)) % (U16 - 1))

\* UdpRepr::emit followed by UdpPacket::fill_checksum
UdpEmit(sport, dport, payload, src, dst) ==
    LET n   == UDP_HDR + Len(payload)
        raw == << sport \div 256, sport % 256, dport \div 256, dport % 256,
                  (n \div 256) % 256, n % 256, 0, 0 >> \o payload
        ck  == UdpChecksumOf(raw, src, dst)
    IN  SubSeq(raw, 1, 6) \o << ck \div 256, ck % 256 >> \o payload

UdpSrcPort(bytes) == bytes[1] * 256 + bytes[2]
UdpDstPort(bytes) == bytes[3] * 256 + bytes[4]
UdpLenField(bytes) == bytes[5] * 256 + bytes[6]
UdpCkField(bytes) == bytes[7] * 256 + bytes[8]
UdpPayload(bytes) == SubSeq(bytes, UDP_HDR + 1, UdpLenField(bytes))

\* UdpPacket::new_checked followed by UdpRepr::parse: "ok" or the error
UdpParse(bytes, src, dst) ==
    IF Len(bytes) < UDP_HDR THEN "Truncated"
    ELSE IF UdpLenField(bytes) < UDP_HDR \/ UdpLenField(bytes) > Len(bytes)
         THEN "Malformed"
    ELSE IF UdpCkField(bytes) # UdpChecksumOf(SubSeq(bytes, 1, UdpLenField(bytes)), src, dst)
         THEN "Checksum"
    ELSE "ok"

(***************************************************************************)
(* Wire codec: IPv4.  A packet is its header fields, its payload bytes and *)
(* the number of bytes that follow it in the enclosing buffer.             *)
(***************************************************************************)
\* header checksum over every other header field
IpChecksumOf(p) ==
    (U16 - 1) - ((p.src + p.dst + p.proto + p.ident + p.tlen + p.hop + p.hlen
                  + p.off8 + (IF p.mf THEN 8192 ELSE 0)
                  + (IF p.df THEN 16384 ELSE 0)) % (U16 - 1))

\* Ipv4Packet::fill_checksum
fill_checksum(p) == [p EXCEPT !.csum = IpChecksumOf(p)]

\* Ipv4Packet::set_frag_offset: the wire field holds the byte offset / 8 in 13 bits
set_frag_offset(p, value) == [p EXCEPT !.off8 = (value \div 8) % 8192]

\* Ipv4Packet::frag_offset: bytes
frag_offset(p) == p.off8 * 8

\* Ipv4Repr::emit into a fresh buffer of buffer_len() + payload_len bytes
Ipv4ReprEmit(src, dst, proto, payload_len, hop) ==
    fill_checksum([src |-> src, dst |-> dst, proto |-> proto, ident |-> 0,
                   mf |-> FALSE, df |-> FALSE, off8 |-> 0, hop |-> hop,
                   hlen |-> IPV4_HEADER_LEN,
                   tlen |-> (IPV4_HEADER_LEN + payload_len) % U16,
                   csum |-> 0, payload |-> <<>>, trailer |-> 0])

PROTO_ICMP == 1
PROTO_IGMP == 2
PROTO_TCP == 6
PROTO_UDP == 17

(***************************************************************************)
(* get_pseudorandom_packet_id: SEED += 1; SEED  (u16)                      *)
(***************************************************************************)
get_pseudorandom_packet_id(seed) == (seed + 1) % U16

(***************************************************************************)
(* fragment_large_udp_packet                                               *)
(***************************************************************************)
\* one fragment of the fragmented branch: lines 410-431, 445-466, 477-497
MkFragment(udp, src, dst, packet_id, start_len, end_len, fragment_offset, more) ==
    LET e == Ipv4ReprEmit(src, dst, PROTO_UDP, end_len - start_len, 64)
        a == [e EXCEPT !.payload = Slice(udp, start_len, end_len), !.ident = packet_id]
        b == set_frag_offset(a, fragment_offset)
    IN  fill_checksum([b EXCEPT !.mf = more, !.df = FALSE])

\* FragLoop with the fragment offset of the middle fragments left at its old value
RECURSIVE FragLoopStaleOffset(_, _, _, _, _)
FragLoopStaleOffset(udp, src, dst, packet_id, st) ==
    IF st.remaining_len > MTU_UDP
    THEN LET start_len == st.start_len + MTU_UDP
             end_len   == st.end_len + MTU_UDP
             fragment_offset == (st.fragment_offset + MTU_UDP) % U16
         IN  FragLoopStaleOffset(udp, src, dst, packet_id,
                [start_len |-> start_len, end_len |-> end_len,
                 fragment_offset |-> fragment_offset,
                 remaining_len |-> st.remaining_len - MTU_UDP,
                 out |-> Append(st.out,
                            MkFragment(udp, src, dst, packet_id, start_len, end_len,
                                       st.fragment_offset, TRUE))])
    ELSE st

\* the while loop of lines 437-469; st is the loop state
RECURSIVE FragLoop(_, _, _, _, _)
FragLoop(udp, src, dst, packet_id, st) ==
    IF st.remaining_len > MTU_UDP
    THEN LET start_len == st.start_len + MTU_UDP
             end_len   == st.end_len + MTU_UDP
             fragment_offset == (st.fragment_offset + MTU_UDP) % U16
         IN  FragLoop(udp, src, dst, packet_id,
                [start_len |-> start_len, end_len |-> end_len,
                 fragment_offset |-> fragment_offset,
                 remaining_len |-> st.remaining_len - MTU_UDP,
                 out |-> Append(st.out,
                            MkFragment(udp, src, dst, packet_id, start_len, end_len,
                                       fragment_offset, TRUE))])
    ELSE st

\* the comparison of line 384
FitsOnePacket(remaining_len, end_len) == remaining_len < end_len

\* fragment_large_udp_packet that gives every fragment an identification of its own
fragment_large_udp_packet_fresh_ids(udp, src, dst, packet_id, seed) ==
    LET n == (Len(udp) + MTU_UDP - 1) \div MTU_UDP
    IN  [out |-> [i \in 1..n |->
                    MkFragment(udp, src, dst, (seed + i) % U16, (i - 1) * MTU_UDP,
                               IF i < n THEN i * MTU_UDP ELSE Len(udp),
                               (i - 1) * MTU_UDP, i < n)],
         seed |-> (seed + n) % U16]

\* returns the emitted IPv4 packets and the new value of SEED
fragment_large_udp_packet(udp, src, dst, packet_id, seed) ==
    IF FitsOnePacket(Len(udp), MTU_UDP)
    THEN LET e == Ipv4ReprEmit(src, dst, PROTO_UDP, Len(udp), 64)
         IN  [out  |-> << fill_checksum([e EXCEPT !.ident = packet_id,
                                                  !.payload = udp]) >>,
              seed |-> seed]
    ELSE LET id    == IF packet_id = 0 THEN get_pseudorandom_packet_id(seed)
                      ELSE packet_id
             seed2 == IF packet_id = 0 THEN get_pseudorandom_packet_id(seed)
                      ELSE seed
             first == MkFragment(udp, src, dst, id, 0, MTU_UDP, 0, TRUE)
             st    == FragLoop(udp, src, dst, id,
                         [start_len |-> 0, end_len |-> MTU_UDP, fragment_offset |-> 0,
                          remaining_len |-> Len(udp) - MTU_UDP, out |-> << first >>])
             start_len == st.start_len + MTU_UDP
             fragment_offset == (st.fragment_offset + MTU_UDP) % U16
             last  == MkFragment(udp, src, dst, id, start_len,
                                 start_len + st.remaining_len, fragment_offset, FALSE)
         IN  [out |-> Append(st.out, last), seed |-> seed2]

(***************************************************************************)
(* smoltcp::iface::FragmentedPacket / FragmentSet (reassembly table).      *)
(* An entry's buffer holds the first fragment's header at [0, hlen) and    *)
(* payload byte o of the datagram at hlen + o.  hdr is the header written  *)
(* by the offset-0 fragment, data maps the payload offsets written so far  *)
(* to their bytes.                                                         *)
(***************************************************************************)
EmptyEntry == [empty |-> TRUE, id |-> 0, src |-> 0, dst |-> 0, total_len |-> 0,
               hdr |-> NoPacket, data |-> <<>>, last_used |-> 0]

\* FragmentedPacket::reset
EntryReset(e) == EmptyEntry

\* FragmentedPacket::start
EntryStart(e, id, src, dst) == [e EXCEPT !.empty = FALSE, !.id = id, !.src = src, !.dst = dst]

\* FragmentedPacket::set_total_len
EntrySetTotalLen(e, n) == [e EXCEPT !.total_len = n]

\* whether a fragment of payload_len bytes at offset fits the buffer
EntryFits(header_len, offset, payload_len) ==
    header_len + offset + payload_len <= MAX_REASSEMBLED_FRAGMENT_SIZE

\* FragmentedPacket::add, when it fits: copy and record the range, touch the entry
EntryAdd(e, offset, p, ts) ==
    LET new == { offset + i - 1 : i \in 1..Len(p.payload) }
        d   == [o \in (DOMAIN e.data) \cup new |->
                   IF o \in new THEN p.payload[o - offset + 1] ELSE e.data[o]]
    IN  [e EXCEPT !.data = d,
                  !.hdr = IF offset = 0 THEN [p EXCEPT !.payload = <<>>, !.trailer = 0]
                          ELSE e.hdr,
                  !.last_used = ts]

\* length of the contiguous filled range that starts at buffer offset 0
RECURSIVE ContigFrom(_, _)
ContigFrom(d, n) == IF n \in DOMAIN d THEN ContigFrom(d, n + 1) ELSE n

EntryFront(e) == IF e.hdr = NoPacket THEN 0 ELSE e.hdr.hlen + ContigFrom(e.data, 0)

\* FragmentedPacket::check_contig_range: total_len is known and covered from 0
check_contig_range(e) == e.total_len # 0 /\ EntryFront(e) = e.total_len

\* FragmentSet::get_packet: (a) the entry holding the key, (b) an empty entry,
\* (c) a stale entry, reset; 0 when there is none
KeyOf(e) == << e.id, e.src, e.dst >>

IsStale(e, ts) == ts - e.last_used > STALE_AFTER

FirstIdx(S) == IF S = {} THEN 0 ELSE CHOOSE i \in S : \A j \in S : i <= j

\* get_packet that looks for an empty entry before it looks for the key
get_packet_empty_first(set, id, src, dst, ts) ==
    LET same  == { i \in DOMAIN set : ~set[i].empty /\ KeyOf(set[i]) = << id, src, dst >> }
        free  == { i \in DOMAIN set : set[i].empty }
        stale == { i \in DOMAIN set : ~set[i].empty /\ IsStale(set[i], ts) }
    IN  IF free # {} THEN [idx |-> FirstIdx(free), set |-> set]
        ELSE IF same # {} THEN [idx |-> FirstIdx(same), set |-> set]
        ELSE IF stale # {}
             THEN [idx |-> FirstIdx(stale),
                   set |-> [set EXCEPT ![FirstIdx(stale)] = EntryReset(@)]]
        ELSE [idx |-> 0, set |-> set]

get_packet(set, id, src, dst, ts) ==
    LET same  == { i \in DOMAIN set : ~set[i].empty /\ KeyOf(set[i]) = << id, src, dst >> }
        free  == { i \in DOMAIN set : set[i].empty }
        stale == { i \in DOMAIN set : ~set[i].empty /\ IsStale(set[i], ts) }
    IN  IF same # {} THEN [idx |-> FirstIdx(same), set |-> set]
        ELSE IF free # {} THEN [idx |-> FirstIdx(free), set |-> set]
        ELSE IF stale # {}
             THEN [idx |-> FirstIdx(stale),
                   set |-> [set EXCEPT ![FirstIdx(stale)] = EntryReset(@)]]
        ELSE [idx |-> 0, set |-> set]

(***************************************************************************)
(* timestamp: MS += 1; Instant::from_millis(MS)                            *)
(***************************************************************************)
timestamp(ms) == ms + 1

(***************************************************************************)
(* process_ipv4_fragment: the result is                                    *)
(*   [kind |-> "some", val |-> assembled packet] | [kind |-> "none"]       *)
(*   | [kind |-> "err", err |-> error], with the table after the call.     *)
(***************************************************************************)
\* NoteLastFragment that leaves the IPv4 header out of the total length
NoteLastFragmentNoHeader(e, p) ==
    IF ~p.mf THEN EntrySetTotalLen(e, frag_offset(p) + Len(p.payload)) ELSE e

\* lines 694-699: a last fragment sets the total length
NoteLastFragment(e, p) ==
    IF ~p.mf THEN EntrySetTotalLen(e, frag_offset(p) + p.tlen) ELSE e

\* Assemble that leaves the total length of the first fragment in the header
AssembleKeepTotalLen(e, front) ==
    LET n == front - e.hdr.hlen
    IN  fill_checksum([e.hdr EXCEPT !.payload = [i \in 1..n |-> e.data[i - 1]]])

\* lines 730-741: patch the header of the assembled bytes and copy them out
Assemble(e, front) ==
    LET n == front - e.hdr.hlen
    IN  fill_checksum([e.hdr EXCEPT !.tlen = front % U16,
                                    !.payload = [i \in 1..n |-> e.data[i - 1]]])

\* process_ipv4_fragment that forgets a fragment that does not complete its datagram
process_ipv4_fragment_forgetful(p, ts, table) ==
    LET g == get_packet(table, p.ident, p.src, p.dst, ts)
    IN  IF g.idx = 0
        THEN [kind |-> "err", err |-> "FragmentSetFull", set |-> table]
        ELSE
          LET i  == g.idx
              e1 == IF g.set[i].empty THEN EntryStart(g.set[i], p.ident, p.src, p.dst)
                    ELSE g.set[i]
              e2 == NoteLastFragment(e1, p)
          IN  IF ~EntryFits(p.hlen, frag_offset(p), Len(p.payload))
              THEN [kind |-> "err", err |-> "TooManyFragments",
                    set |-> [g.set EXCEPT ![i] = EntryReset(e2)]]
              ELSE [kind |-> "none", set |-> [g.set EXCEPT ![i] = EntryReset(e2)]]

\* process_ipv4_fragment that empties the whole table when a fragment does not fit
process_ipv4_fragment_reset_all(p, ts, table) ==
    LET g == get_packet(table, p.ident, p.src, p.dst, ts)
    IN  IF g.idx = 0
        THEN [kind |-> "err", err |-> "FragmentSetFull", set |-> table]
        ELSE
          LET i  == g.idx
              e1 == IF g.set[i].empty THEN EntryStart(g.set[i], p.ident, p.src, p.dst)
                    ELSE g.set[i]
              e2 == NoteLastFragment(e1, p)
          IN  IF ~EntryFits(p.hlen, frag_offset(p), Len(p.payload))
              THEN [kind |-> "err", err |-> "TooManyFragments",
                    set |-> [j \in DOMAIN table |-> EmptyEntry]]
              ELSE
                LET e3 == EntryAdd(e2, frag_offset(p), p, ts)
                IN  IF check_contig_range(e3)
                    THEN [kind |-> "some", val |-> Assemble(e3, EntryFront(e3)),
                          set |-> [g.set EXCEPT ![i] = EntryReset(e3)]]
                    ELSE [kind |-> "none", set |-> [g.set EXCEPT ![i] = e3]]

\* process_ipv4_fragment that drops the fragment without an error when the
\* lookup gives no entry
process_ipv4_fragment_full_is_none(p, ts, table) ==
    LET g == get_packet(table, p.ident, p.src, p.dst, ts)
    IN  IF g.idx = 0
        THEN [kind |-> "none", set |-> table]
        ELSE
          LET i  == g.idx
              e1 == IF g.set[i].empty THEN EntryStart(g.set[i], p.ident, p.src, p.dst)
                    ELSE g.set[i]
              e2 == NoteLastFragment(e1, p)
          IN  IF ~EntryFits(p.hlen, frag_offset(p), Len(p.payload))
              THEN [kind |-> "err", err |-> "TooManyFragments",
                    set |-> [g.set EXCEPT ![i] = EntryReset(e2)]]
              ELSE
                LET e3 == EntryAdd(e2, frag_offset(p), p, ts)
                IN  IF check_contig_range(e3)
                    THEN [kind |-> "some", val |-> Assemble(e3, EntryFront(e3)),
                          set |-> [g.set EXCEPT ![i] = EntryReset(e3)]]
                    ELSE [kind |-> "none", set |-> [g.set EXCEPT ![i] = e3]]

\* process_ipv4_fragment that leaves the entry as it is, with the total
\* length a last fragment set, when the fragment does not fit
process_ipv4_fragment_no_reset(p, ts, table) ==
    LET g == get_packet(table, p.ident, p.src, p.dst, ts)
    IN  IF g.idx = 0
        THEN [kind |-> "err", err |-> "FragmentSetFull", set |-> table]
        ELSE
          LET i  == g.idx
              e1 == IF g.set[i].empty THEN EntryStart(g.set[i], p.ident, p.src, p.dst)
                    ELSE g.set[i]
              e2 == NoteLastFragment(e1, p)
          IN  IF ~EntryFits(p.hlen, frag_offset(p), Len(p.payload))
              THEN [kind |-> "err", err |-> "TooManyFragments",
                    set |-> [g.set EXCEPT ![i] = e2]]
              ELSE
                LET e3 == EntryAdd(e2, frag_offset(p), p, ts)
                IN  IF check_contig_range(e3)
                    THEN [kind |-> "some", val |-> Assemble(e3, EntryFront(e3)),
                          set |-> [g.set EXCEPT ![i] = EntryReset(e3)]]
                    ELSE [kind |-> "none", set |-> [g.set EXCEPT ![i] = e3]]

\* process_ipv4_fragment that leaves the entry as it is when it returns the
\* assembled packet
process_ipv4_fragment_keeps_entry(p, ts, table) ==
    LET g == get_packet(table, p.ident, p.src, p.dst, ts)
    IN  IF g.idx = 0
        THEN [kind |-> "err", err |-> "FragmentSetFull", set |-> table]
        ELSE
          LET i  == g.idx
              e1 == IF g.set[i].empty THEN EntryStart(g.set[i], p.ident, p.src, p.dst)
                    ELSE g.set[i]
              e2 == NoteLastFragment(e1, p)
          IN  IF ~EntryFits(p.hlen, frag_offset(p), Len(p.payload))
              THEN [kind |-> "err", err |-> "TooManyFragments",
                    set |-> [g.set EXCEPT ![i] = EntryReset(e2)]]
              ELSE
                LET e3 == EntryAdd(e2, frag_offset(p), p, ts)
                IN  IF check_contig_range(e3)
                    THEN [kind |-> "some", val |-> Assemble(e3, EntryFront(e3)),
                          set |-> [g.set EXCEPT ![i] = e3]]
                    ELSE [kind |-> "none", set |-> [g.set EXCEPT ![i] = e3]]

process_ipv4_fragment(p, ts, table) ==
    LET g == get_packet(table, p.ident, p.src, p.dst, ts)
    IN  IF g.idx = 0
        THEN [kind |-> "err", err |-> "FragmentSetFull", set |-> table]
        ELSE
          LET i  == g.idx
              e0 == g.set[i]
              e1 == IF e0.empty THEN EntryStart(e0, p.ident, p.src, p.dst) ELSE e0
              e2 == NoteLastFragment(e1, p)
          IN  IF ~EntryFits(p.hlen, frag_offset(p), Len(p.payload))
              THEN [kind |-> "err", err |-> "TooManyFragments",
                    set |-> [g.set EXCEPT ![i] = EntryReset(e2)]]
              ELSE
                LET e3 == EntryAdd(e2, frag_offset(p), p, ts)
                IN  IF check_contig_range(e3)
                    THEN [kind |-> "some", val |-> Assemble(e3, EntryFront(e3)),
                          set |-> [g.set EXCEPT ![i] = EntryReset(e3)]]
                    ELSE [kind |-> "none", set |-> [g.set EXCEPT ![i] = e3]]

(***************************************************************************)
(* Threads, locks and test data                                            *)
(***************************************************************************)
Threads == { "t1", "t2" }
NoThread == "none"

\* the two directions and the threads the entry points run on
Directions == { "rx", "tx" }
EpThreads == { "a", "b" }
\* lines 99-115, 87-96, 118-121: the statics of one direction
FRAGMENTS(d) == IF d = "rx" THEN "FRAGMENTS_RX" ELSE "FRAGMENTS_TX"
FN_PACKET(d) == IF d = "rx" THEN "FN_PACKET_IN" ELSE "FN_PACKET_OUT"
PACKETS(d) == IF d = "rx" THEN "PACKETS_RX" ELSE "PACKETS_TX"
\* the component's locks, lines 83-121
EpLocks ==
    { "MTX_ETHDRIVER_BUF", "MTX_CLIENT_BUF" }
        \cup { FRAGMENTS(d) : d \in Directions }
        \cup { FN_PACKET(d) : d \in Directions }
        \cup { PACKETS(d) : d \in Directions }
\* the glue at start: a new EthdriverRxStatus (lines 199-203), both buffer
\* locks free, no call of ethdriver_rx made, no operation called
GlueStart ==
    [pc |-> "ready", cause |-> "none", held |-> {}, finished |-> FALSE,
     log |-> <<>>, n |-> 0, last |-> [op |-> "none"]]

\* a thread that runs no entry point
EpIdle == [pc |-> "idle", op |-> "none", dir |-> "rx", reg |-> 0]
\* no entry point in flight, every lock free, no id generated and no
\* timestamp handed to a table yet
EpStart ==
    [th |-> [t \in EpThreads |-> EpIdle],
     locks |-> [l \in EpLocks |-> NoThread],
     ops |-> 0,
     ids |-> <<>>,
     stamp |-> [d \in Directions |-> 0]]
\* the camkesrust::Mutex of the fragment table, of the policy handle and of
\* the outbound queue of one direction
LockNames == { "fragments", "policy", "queue" }

\* FRAGMENTS_RX / FRAGMENTS_TX at construction
EmptyTable == [i \in 1..SUPPORTED_FRAGMENTS |-> EmptyEntry]

\* n payload bytes, distinct by position
MkPayload(n, base) == [i \in 1..n |-> (base + 7 * i) % 256]

ADDR_A == 1
ADDR_B == 2

(***************************************************************************)
(* Ethernet frames.  A frame carries its destination MAC, its EtherType    *)
(* and either an IPv4 packet or the opaque bytes of another protocol;      *)
(* len_ok is FALSE for a frame shorter than the Ethernet header.           *)
(***************************************************************************)
CLIENT_MAC_ADDRESS == << 2, 0, 0, 0, 0, 1 >>
MAC_OTHER == << 2, 0, 0, 0, 0, 9 >>
MAC_BROADCAST == << 255, 255, 255, 255, 255, 255 >>
MAC_MULTICAST == << 1, 0, 94, 0, 0, 1 >>

ETHERTYPE_IPV4 == 2048
ETHERTYPE_ARP == 2054
ETHERTYPE_IPV6 == 34525
\* an EtherType the firewall does not know (LLDP)
ETHERTYPE_OTHER == 35020

\* EthernetAddress::is_broadcast / is_multicast
is_broadcast(mac) == mac = MAC_BROADCAST
is_multicast(mac) == mac[1] % 2 = 1 /\ ~is_broadcast(mac)

\* MacFiltered that also drops the frames addressed to the local MAC
MacFilteredLocalToo(frame) ==
    /\ ~is_broadcast(frame.dst)
    /\ ~is_multicast(frame.dst)

\* MacFiltered without the exemption of broadcast frames
MacFilteredNoBroadcast(frame) ==
    /\ ~is_multicast(frame.dst)
    /\ frame.dst # CLIENT_MAC_ADDRESS

\* lines 315-316: the frame is not for us
MacFiltered(frame) ==
    /\ ~is_broadcast(frame.dst)
    /\ ~is_multicast(frame.dst)
    /\ frame.dst # CLIENT_MAC_ADDRESS

\* Ipv4Packet::new_checked: "ok" or the error
Ipv4Check(p) ==
    IF p.hlen < IPV4_HEADER_LEN \/ p.tlen < p.hlen THEN "Malformed"
    ELSE IF p.tlen # p.hlen + Len(p.payload) THEN "Truncated"
    ELSE "ok"

\* shave_crc_from_ipv4: drop exactly ETH_CRC_LEN trailing bytes
shave_crc_from_ipv4(p) == IF p.trailer = ETH_CRC_LEN THEN [p EXCEPT !.trailer = 0] ELSE p

\* Ipv4Repr::parse: "ok" or the error
Ipv4ReprParse(p) == IF p.csum # IpChecksumOf(p) THEN "Checksum" ELSE "ok"

\* IsUdpFragment that takes fragments of any protocol
IsFragmentAnyProtocol(p) == p.mf \/ frag_offset(p) > 0

\* line 567-568: a UDP fragment
IsUdpFragment(p) == (p.mf \/ frag_offset(p) > 0) /\ p.proto = PROTO_UDP

(***************************************************************************)
(* process_udp                                                             *)
(***************************************************************************)
\* lines 789-792: the capacity of udp_data, handed to the callee as its bound
max_data_len == MAX_UDP_PAYLOAD_SIZE

\* lines 823-826: the bytes of Vec::from_raw_parts(data_ptr, payload_len, cap).
\* written are the bytes the callee stored (from offset 0); a byte it did not
\* store is the original payload byte or, past the original length, whatever
\* the memory holds (junk).
PolicyReadBack(data, payload_len, written, junk) ==
    [i \in 1..payload_len |->
        IF i <= Len(written) THEN written[i]
        ELSE IF i <= Len(data) THEN data[i]
        ELSE junk]

\* PolicyAccepts that takes a return value of zero for an accept
PolicyAcceptsZero(payload_len) == payload_len >= 0 /\ payload_len <= MAX_UDP_PACKET_SIZE

\* line 828
PolicyAccepts(payload_len) == payload_len > 0 /\ payload_len <= MAX_UDP_PACKET_SIZE

\* RebuildUdp with the two ports exchanged
RebuildUdpSwapsPorts(ip, udp_data) ==
    UdpEmit(UdpDstPort(ip.payload), UdpSrcPort(ip.payload), udp_data, ip.src, ip.dst)

\* lines 832-852: the rebuilt UDP packet
RebuildUdp(ip, udp_data) ==
    UdpEmit(UdpSrcPort(ip.payload), UdpDstPort(ip.payload), udp_data, ip.src, ip.dst)

(***************************************************************************)
(* process_ipv4, lines 644-658: the Ethernet frames of the result          *)
(***************************************************************************)
EthFrames(frame, ipv4_packet_buffer) ==
    IF ipv4_packet_buffer = <<>> THEN << frame >>
    ELSE [i \in 1..Len(ipv4_packet_buffer) |-> [frame EXCEPT !.ip = ipv4_packet_buffer[i]]]

(***************************************************************************)
(* process_ethernet, lines 335-338 and 352-354: push while there is room   *)
(***************************************************************************)
\* HasRoom with the bound off by one
HasRoomOffByOne(buffer) == Len(buffer) <= MAX_ENQUEUED_PACKETS

HasRoom(buffer) == Len(buffer) < MAX_ENQUEUED_PACKETS

\* EnqueueLoop that puts each frame at the head of the queue
RECURSIVE EnqueueLoopAtHead(_, _)
EnqueueLoopAtHead(buffer, packets) ==
    IF packets # <<>> /\ HasRoom(buffer)
    THEN EnqueueLoopAtHead(<< Head(packets) >> \o buffer, Tail(packets))
    ELSE buffer

RECURSIVE EnqueueLoop(_, _)
EnqueueLoop(buffer, packets) ==
    IF packets # <<>> /\ HasRoom(buffer)
    THEN EnqueueLoop(Append(buffer, Head(packets)), Tail(packets))
    ELSE buffer

(***************************************************************************)
(* One process_ethernet invocation per thread.  An invocation runs from    *)
(* one lock acquisition to the next in one step; a lock taken in a step is *)
(* released by the next step of the same thread.                           *)
(***************************************************************************)
NoFrame == [none |-> TRUE]

\* process_ethernet invocations started in one run of Spec and of ReasmSpec
MaxCalls == 2
MaxFragCalls == 4
MaxIpCalls == 2
MaxOps == 4
MaxCapCalls == 4
MaxGlueCalls == 3
MaxLiveCalls == 2

IdleThread == [pc |-> "idle", inp |-> 0, frame |-> NoFrame, check_mac |-> FALSE,
               ip |-> NoPacket, fr |-> "na", called |-> FALSE, ret |-> 0,
               udp_data |-> <<>>,
               packets |-> <<>>, produced |-> <<>>, pushed |-> <<>>,
               result |-> "none"]

Returned(s, result) == [s EXCEPT !.pc = "done", !.result = result]

\* an invocation of t that returns in this step is appended to the trace
Logged(t) ==
    trace' = IF trace.on /\ th'[t].pc = "done"
             THEN [trace EXCEPT !.log =
                      Append(@, [inp |-> th'[t].inp, result |-> th'[t].result,
                                 pushed |-> Len(th'[t].pushed)])]
             ELSE trace

\* lines 581-641 up to the policy callout, on the assembled or original packet
AfterReassembly(s, eth_payload) ==
    LET p == shave_crc_from_ipv4(eth_payload)
    IN  IF Ipv4Check(eth_payload) # "ok" THEN Returned(s, Ipv4Check(eth_payload))
        ELSE IF Ipv4ReprParse(p) # "ok" THEN Returned(s, Ipv4ReprParse(p))
        ELSE IF p.proto \in { PROTO_ICMP, PROTO_IGMP }
             THEN [s EXCEPT !.pc = "enqueue", !.packets = EthFrames(s.frame, <<>>),
                            !.produced = EthFrames(s.frame, <<>>)]
        ELSE IF p.proto = PROTO_UDP
             THEN IF UdpParse(p.payload, p.src, p.dst) # "ok"
                  THEN Returned(s, UdpParse(p.payload, p.src, p.dst))
                  ELSE [s EXCEPT !.pc = "policy", !.ip = p]
        ELSE Returned(s, "Unrecognized")

\* DispatchKind that lets IPv6 frames through like ARP frames
DispatchKindIpv6Passes(frame) ==
    IF frame.ethertype = ETHERTYPE_IPV4 THEN "ipv4"
    ELSE IF frame.ethertype \in { ETHERTYPE_ARP, ETHERTYPE_IPV6 } THEN "arp"
    ELSE "drop"

\* lines 328-362: the arm of match eth_frame.ethertype()
DispatchKind(frame) ==
    IF frame.ethertype = ETHERTYPE_IPV4 THEN "ipv4"
    ELSE IF frame.ethertype = ETHERTYPE_ARP THEN "arp"
    ELSE "drop"

\* process_ethernet up to its first lock acquisition
Begin(t, inp, frame, check_mac) ==
    /\ th[t].pc \in { "idle", "done" }
    /\ calls' = calls + 1
    /\ LET s == [IdleThread EXCEPT !.inp = inp, !.frame = frame, !.check_mac = check_mac]
       IN  th' = [th EXCEPT ![t] =
              IF ~frame.len_ok THEN Returned(s, "Truncated")
              ELSE IF check_mac /\ MacFiltered(frame) THEN Returned(s, "Ok")
              ELSE IF DispatchKind(frame) = "ipv4"
                   THEN IF Ipv4Check(frame.ip) # "ok"
                        THEN Returned(s, Ipv4Check(frame.ip))
                        ELSE IF IsUdpFragment(shave_crc_from_ipv4(frame.ip))
                        THEN [s EXCEPT !.pc = "fragment",
                                       !.ip = shave_crc_from_ipv4(frame.ip)]
                        ELSE AfterReassembly(s, frame.ip)
              ELSE IF DispatchKind(frame) = "arp"
                   THEN [s EXCEPT !.pc = "enqueue", !.packets = << frame >>,
                                  !.produced = << frame >>]
              ELSE Returned(s, "Ok")]
    /\ UNCHANGED << queue, fragments, SEED, MS, locks, fz, ep, glue >>
    /\ Logged(t)

\* lines 571-572: lock the table, take a timestamp, process the fragment
FragmentLock(t) ==
    /\ th[t].pc = "fragment"
    /\ locks["fragments"] = NoThread
    /\ LET ts == timestamp(MS)
           r  == process_ipv4_fragment(th[t].ip, ts, fragments)
       IN  /\ MS' = ts
           /\ fragments' = r.set
           /\ th' = [th EXCEPT ![t] =
                 [@ EXCEPT !.pc = "fragment_held",
                           !.fr = IF r.kind = "err" THEN r.err ELSE r.kind,
                           !.ip = IF r.kind = "some" THEN r.val ELSE NoPacket]]
    /\ locks' = [locks EXCEPT !["fragments"] = t]
    /\ UNCHANGED << queue, SEED, calls, fz, ep, glue >>
    /\ Logged(t)

\* FragmentUnlock that returns or goes on with the table's lock still taken
FragmentUnlockKeepsLock(t) ==
    /\ th[t].pc = "fragment_held"
    /\ th' = [th EXCEPT ![t] =
          IF th[t].fr = "some" THEN AfterReassembly(@, th[t].ip)
          ELSE IF th[t].fr = "none" THEN Returned(@, "Fragmented")
          ELSE Returned(@, th[t].fr)]
    /\ UNCHANGED << queue, fragments, SEED, MS, locks, calls, fz, ep, glue >>
    /\ Logged(t)

\* lines 573-579: leave the block (the guard is dropped) and go on or return
FragmentUnlock(t) ==
    /\ th[t].pc = "fragment_held"
    /\ locks' = [locks EXCEPT !["fragments"] = NoThread]
    /\ th' = [th EXCEPT ![t] =
          IF th[t].fr = "some" THEN AfterReassembly(@, th[t].ip)
          ELSE IF th[t].fr = "none" THEN Returned(@, "Fragmented")
          ELSE Returned(@, th[t].fr)]
    /\ UNCHANGED << queue, fragments, SEED, MS, calls, fz, ep, glue >>
    /\ Logged(t)

\* what the policy callout may do with a payload of data_len bytes: the value
\* it returns, the bytes it stores in the buffer, and the content of memory it
\* leaves untouched
PolicyOutcomes(data_len) ==
    { [ret |-> -1, written |-> <<>>, junk |-> 0],
      [ret |-> 0, written |-> <<>>, junk |-> 0],
      [ret |-> data_len, written |-> <<>>, junk |-> 0],
      [ret |-> data_len, written |-> MkPayload(data_len, 200), junk |-> 0],
      [ret |-> MTU_UDP - UDP_HDR, written |-> MkPayload(MTU_UDP - UDP_HDR, 201), junk |-> 0],
      [ret |-> 3 * MTU_UDP - UDP_HDR + 7,
       written |-> MkPayload(3 * MTU_UDP - UDP_HDR + 7, 202), junk |-> 0],
      [ret |-> MAX_UDP_PACKET_SIZE, written |-> MkPayload(MAX_UDP_PAYLOAD_SIZE, 203),
       junk |-> 90],
      [ret |-> MAX_UDP_PACKET_SIZE, written |-> MkPayload(MAX_UDP_PAYLOAD_SIZE, 203),
       junk |-> 0],
      [ret |-> MAX_UDP_PACKET_SIZE + 1, written |-> <<>>, junk |-> 0] }

\* lines 812-826: lock the policy handle and call it; the callee returns
\* payload_len and may store bytes (written) in the buffer
PolicyCall(s, payload_len, written, junk) ==
    [s EXCEPT !.pc = "policy_held", !.called = TRUE, !.ret = payload_len,
              !.udp_data = IF payload_len > 0
                           THEN PolicyReadBack(UdpPayload(s.ip.payload),
                                               payload_len, written, junk)
                           ELSE <<>>]

PolicyLock(t) ==
    /\ th[t].pc = "policy"
    /\ locks["policy"] = NoThread
    /\ locks' = [locks EXCEPT !["policy"] = t]
    /\ \E o \in PolicyOutcomes(Len(UdpPayload(th[t].ip.payload))) :
          th' = [th EXCEPT ![t] = PolicyCall(@, o.ret, o.written, o.junk)]
    /\ UNCHANGED << queue, fragments, SEED, MS, calls, fz, ep, glue >>
    /\ Logged(t)

\* lines 820-859 and 603-658: the guard is dropped at the end of the call
\* statement; rebuild, fragment and frame the packet, or drop it
PolicyUnlock(t) ==
    /\ th[t].pc = "policy_held"
    /\ locks' = [locks EXCEPT !["policy"] = NoThread]
    /\ IF PolicyAccepts(th[t].ret)
       THEN LET udp == RebuildUdp(th[t].ip, th[t].udp_data)
                r   == fragment_large_udp_packet(udp, th[t].ip.src, th[t].ip.dst,
                                                 th[t].ip.ident, SEED)
            IN  /\ SEED' = r.seed
                /\ th' = [th EXCEPT ![t] =
                      [@ EXCEPT !.pc = "enqueue",
                                !.packets = EthFrames(th[t].frame, r.out),
                                !.produced = EthFrames(th[t].frame, r.out)]]
       ELSE /\ SEED' = SEED
            /\ th' = [th EXCEPT ![t] = Returned(@, "Dropped")]
    /\ UNCHANGED << queue, fragments, MS, calls, fz, ep, glue >>
    /\ Logged(t)

\* lines 334-338 and 351-354: lock the queue and push while there is room
EnqueueLock(t) ==
    /\ th[t].pc = "enqueue"
    /\ locks["queue"] = NoThread
    /\ locks' = [locks EXCEPT !["queue"] = t]
    /\ LET q == EnqueueLoop(queue, th[t].packets)
           n == Len(q) - Len(queue)
       IN  /\ queue' = q
           /\ th' = [th EXCEPT ![t] =
                 [@ EXCEPT !.pc = "enqueue_held",
                           !.pushed = SubSeq(th[t].packets, 1, n),
                           !.packets = SubSeq(th[t].packets, n + 1, Len(th[t].packets))]]
    /\ UNCHANGED << fragments, SEED, MS, calls, fz, ep, glue >>
    /\ Logged(t)

\* lines 339 and 355, 362: the guard is dropped, Ok(())
EnqueueUnlock(t) ==
    /\ th[t].pc = "enqueue_held"
    /\ locks' = [locks EXCEPT !["queue"] = NoThread]
    /\ th' = [th EXCEPT ![t] = Returned([@ EXCEPT !.packets = <<>>], "Ok")]
    /\ UNCHANGED << queue, fragments, SEED, MS, calls, fz, ep, glue >>
    /\ Logged(t)

\* the consumer of the queue takes the frame at its head, under the queue lock
Drain ==
    /\ queue # <<>>
    /\ locks["queue"] = NoThread
    /\ queue' = Tail(queue)
    /\ UNCHANGED << fragments, SEED, MS, th, locks, calls, trace, fz, ep, glue >>

(***************************************************************************)
(* Input frames                                                            *)
(***************************************************************************)
EthFrame(dst, ethertype, ip, raw) ==
    [len_ok |-> TRUE, dst |-> dst, src |-> MAC_OTHER, ethertype |-> ethertype,
     ip |-> ip, raw |-> raw]

IpPacket(proto, ident, more, offset, payload, trailer) ==
    fill_checksum([src |-> ADDR_A, dst |-> ADDR_B, proto |-> proto, ident |-> ident,
                   mf |-> more, df |-> FALSE, off8 |-> offset \div 8, hop |-> 64,
                   hlen |-> IPV4_HEADER_LEN, tlen |-> IPV4_HEADER_LEN + Len(payload),
                   csum |-> 0, payload |-> payload, trailer |-> trailer])

Ipv4Frame(ip) == EthFrame(CLIENT_MAC_ADDRESS, ETHERTYPE_IPV4, ip, <<>>)

\* "hello" from 10.0.0.1:1234 to 10.0.0.2:53
UdpHello == UdpEmit(1234, 53, << 104, 101, 108, 108, 111 >>, ADDR_A, ADDR_B)

\* "hi": a UDP packet of 10 bytes; with its IPv4 header it is below MTU_UDP + UDP_HDR
UdpHi == UdpEmit(1234, 53, << 104, 105 >>, ADDR_A, ADDR_B)
\* a UDP packet of exactly MTU_UDP bytes
UdpFull == UdpEmit(1234, 53, MkPayload(MTU_UDP - UDP_HDR, 6), ADDR_A, ADDR_B)

\* datagram A: 20 bytes, shorter than MTU_UDP, in fragments of 8, 8 and 4 bytes
DatagramA == UdpEmit(1234, 53, MkPayload(12, 1), ADDR_A, ADDR_B)
IDENT_A == 1
\* datagram D: 40 bytes, longer than MTU_UDP, in fragments of 16, 16 and 8 bytes
DatagramD == UdpEmit(1234, 53, MkPayload(32, 2), ADDR_A, ADDR_B)
IDENT_D == 2
IDENT_B == 3

FragmentFrame(udp, ident, lo, hi) ==
    Ipv4Frame(IpPacket(PROTO_UDP, ident, hi < Len(udp), lo, Slice(udp, lo, hi), 0))

Inputs ==
    << [frame |-> EthFrame(MAC_BROADCAST, ETHERTYPE_ARP, NoPacket, MkPayload(28, 0)),
        check_mac |-> TRUE],
       [frame |-> EthFrame(MAC_OTHER, ETHERTYPE_ARP, NoPacket, MkPayload(28, 0)),
        check_mac |-> TRUE],
       [frame |-> [EthFrame(CLIENT_MAC_ADDRESS, ETHERTYPE_ARP, NoPacket, <<>>)
                      EXCEPT !.len_ok = FALSE],
        check_mac |-> FALSE],
       [frame |-> EthFrame(MAC_MULTICAST, ETHERTYPE_IPV6, NoPacket, MkPayload(4, 0)),
        check_mac |-> TRUE],
       [frame |-> Ipv4Frame(IpPacket(PROTO_ICMP, 5, FALSE, 0, MkPayload(8, 3), ETH_CRC_LEN)),
        check_mac |-> TRUE],
       [frame |-> Ipv4Frame(IpPacket(PROTO_TCP, 6, FALSE, 0, MkPayload(8, 4), 0)),
        check_mac |-> FALSE],
       [frame |-> Ipv4Frame(IpPacket(PROTO_UDP, 0, FALSE, 0, UdpHello, 0)),
        check_mac |-> FALSE],
       [frame |-> Ipv4Frame(IpPacket(PROTO_UDP, 8, FALSE, 0,
                                     [UdpHello EXCEPT ![8] = (@ + 1) % 256], 0)),
        check_mac |-> FALSE],
       [frame |-> FragmentFrame(DatagramA, IDENT_A, 0, 8), check_mac |-> FALSE],
       [frame |-> FragmentFrame(DatagramA, IDENT_A, 8, 16), check_mac |-> FALSE],
       [frame |-> FragmentFrame(DatagramA, IDENT_A, 16, 20), check_mac |-> FALSE],
       [frame |-> FragmentFrame(DatagramD, IDENT_D, 0, 16), check_mac |-> FALSE],
       [frame |-> FragmentFrame(DatagramD, IDENT_D, 16, 32), check_mac |-> FALSE],
       [frame |-> FragmentFrame(DatagramD, IDENT_D, 32, 40), check_mac |-> FALSE],
       [frame |-> FragmentFrame(DatagramD \o DatagramD, IDENT_B, 0, 8), check_mac |-> FALSE],
       [frame |-> Ipv4Frame(IpPacket(PROTO_UDP, IDENT_A, TRUE, 104, MkPayload(8, 5), 0)),
        check_mac |-> FALSE],
       [frame |-> Ipv4Frame(IpPacket(PROTO_UDP, 9, FALSE, 0, UdpHello, ETH_CRC_LEN)),
        check_mac |-> TRUE],
       [frame |-> EthFrame(CLIENT_MAC_ADDRESS, ETHERTYPE_OTHER, NoPacket, MkPayload(4, 0)),
        check_mac |-> FALSE],
       [frame |-> [Ipv4Frame(IpPacket(PROTO_UDP, 9, FALSE, 0, UdpHello, 0))
                      EXCEPT !.dst = MAC_OTHER],
        check_mac |-> TRUE],
       [frame |-> EthFrame(MAC_OTHER, ETHERTYPE_ARP, NoPacket, MkPayload(28, 0)),
        check_mac |-> FALSE],
       [frame |-> Ipv4Frame(fill_checksum(
                     [IpPacket(PROTO_UDP, 11, FALSE, 0, UdpHi, 0)
                         EXCEPT !.hop = 63, !.df = TRUE])),
        check_mac |-> FALSE],
       [frame |-> Ipv4Frame(IpPacket(PROTO_UDP, 12, FALSE, 0, UdpFull, 0)),
        check_mac |-> FALSE],
       [frame |-> Ipv4Frame(IpPacket(PROTO_ICMP, 13, TRUE, 0, MkPayload(8, 3), 0)),
        check_mac |-> FALSE],
       [frame |-> Ipv4Frame(IpPacket(PROTO_ICMP, 13, FALSE, 8, MkPayload(8, 4), 0)),
        check_mac |-> FALSE],
       [frame |-> Ipv4Frame(IpPacket(PROTO_IGMP, 14, FALSE, 0, MkPayload(8, 5), 0)),
        check_mac |-> TRUE],
       [frame |-> Ipv4Frame(IpPacket(PROTO_UDP, IDENT_A, FALSE, 104, MkPayload(8, 5), 0)),
        check_mac |-> FALSE] >>

(***************************************************************************)
(* Spec: process_ethernet invocations of two threads on one direction      *)
(***************************************************************************)
Init ==
    /\ queue = <<>>
    /\ fragments = EmptyTable
    /\ SEED = 42
    /\ MS = 0
    /\ th = [t \in Threads |-> IdleThread]
    /\ locks = [l \in LockNames |-> NoThread]
    /\ calls = 0
    /\ trace = [on |-> FALSE, log |-> <<>>]
    /\ fz = [stage |-> "off"]
    /\ ep = EpStart
    /\ glue = GlueStart

\* every kind of frame; of the fragments, datagram A's, the one of key B and
\* the one that does not fit
SpecInputs == (1..11) \cup (15..20)

Step(t) ==
    \/ /\ calls < MaxCalls
       /\ \E i \in SpecInputs : Begin(t, i, Inputs[i].frame, Inputs[i].check_mac)
    \/ FragmentLock(t)
    \/ FragmentUnlock(t)
    \/ PolicyLock(t)
    \/ PolicyUnlock(t)
    \/ EnqueueLock(t)
    \/ EnqueueUnlock(t)

Next == (\E t \in Threads : Step(t)) \/ Drain

Spec == Init /\ [][Next]_vars

\* a thread inside a locked block or inside the policy callout leaves it:
\* FragmentUnlock(t), PolicyUnlock(t) and EnqueueUnlock(t) are possible
\* exactly at these positions and leave them, so this is their weak fairness
BlocksEnd(t) ==
    []<>(th[t].pc \notin { "fragment_held", "policy_held", "enqueue_held" })

\* the table's lock is acquired fairly: FragmentLock(t) is possible exactly
\* when t waits for the lock and the lock is free, and t leaves the wait by
\* FragmentLock(t) only, so this is the strong fairness of FragmentLock(t)
TableLockFair(t) ==
    \/ []<>(th[t].pc # "fragment")
    \/ <>[](locks["fragments"] # NoThread)

\* Spec with its scheduling: a thread that waits for a lock that becomes
\* free again and again gets it (lock acquisition is fair), a thread inside
\* a locked block leaves it, and the policy callout returns.  A thread waits
\* for one lock at a time, so the strong fairness of PolicyLock(t) and of
\* EnqueueLock(t) is the strong fairness of the two together.
Fairness ==
    \A t \in Threads :
        /\ TableLockFair(t)
        /\ SF_vars(PolicyLock(t) \/ EnqueueLock(t))
        /\ BlocksEnd(t)

\* one frame for each sequence of locks an invocation takes: none (a
\* truncated frame, a TCP packet), the queue's (ARP), the policy's and the
\* queue's (a UDP packet that is sent on as four fragments, or dropped by
\* the policy), and the table's and then these (the fragments of datagram A)
LiveInputs == { 3, 6, 7, 9, 10, 11, 20 }

LiveNext ==
    \/ \E t \in Threads :
          \/ /\ calls < MaxLiveCalls
             /\ \E i \in LiveInputs : Begin(t, i, Inputs[i].frame, Inputs[i].check_mac)
          \/ FragmentLock(t)
          \/ FragmentUnlock(t)
          \/ PolicyLock(t)
          \/ PolicyUnlock(t)
          \/ EnqueueLock(t)
          \/ EnqueueUnlock(t)
    \/ Drain

LiveSpec == Init /\ [][LiveNext]_vars /\ Fairness

(***************************************************************************)
(* ReasmSpec: one thread, the frames that reach the reassembly table or    *)
(* end in an error, and enough invocations to fill the table and to let an *)
(* entry go stale                                                          *)
(***************************************************************************)
ReasmInputs == { 3, 6 } \cup 9..16

\* the start of a run of one thread, of which the history is kept
SeqInit ==
    /\ queue = <<>>
    /\ fragments = EmptyTable
    /\ SEED = 42
    /\ MS = 0
    /\ th = [t \in Threads |-> IdleThread]
    /\ locks = [l \in LockNames |-> NoThread]
    /\ calls = 0
    /\ trace = [on |-> TRUE, log |-> <<>>]
    /\ fz = [stage |-> "off"]
    /\ ep = EpStart
    /\ glue = GlueStart

ReasmNext ==
    \/ /\ calls < MaxFragCalls
       /\ \E i \in ReasmInputs : Begin("t1", i, Inputs[i].frame, Inputs[i].check_mac)
    \/ FragmentLock("t1")
    \/ FragmentUnlock("t1")
    \/ PolicyLock("t1")
    \/ PolicyUnlock("t1")
    \/ EnqueueLock("t1")
    \/ EnqueueUnlock("t1")
    \/ Drain

ReasmSpec == SeqInit /\ [][ReasmNext]_vars

(***************************************************************************)
(* IpSpec: one thread and the IPv4 frames that are not UDP fragments       *)
(* (UDP of several sizes and header fields, ICMP, IGMP), next to one UDP   *)
(* fragment                                                                *)
(***************************************************************************)
IpInputs == { 5, 7, 9, 17 } \cup (21..25)

IpNext ==
    \/ /\ calls < MaxIpCalls
       /\ \E i \in IpInputs : Begin("t1", i, Inputs[i].frame, Inputs[i].check_mac)
    \/ FragmentLock("t1")
    \/ FragmentUnlock("t1")
    \/ PolicyLock("t1")
    \/ PolicyUnlock("t1")
    \/ EnqueueLock("t1")
    \/ EnqueueUnlock("t1")
    \/ Drain

IpSpec == SeqInit /\ [][IpNext]_vars

(***************************************************************************)
(* CapSpec: one thread and the fragments of three keys, two of which reach *)
(* beyond the reassembly buffer (one with MF=1, one with MF=0)             *)
(***************************************************************************)
CapInputs == { 9, 10, 11, 12, 15, 16, 26 }

CapNext ==
    \/ /\ calls < MaxCapCalls
       /\ \E i \in CapInputs : Begin("t1", i, Inputs[i].frame, Inputs[i].check_mac)
    \/ FragmentLock("t1")
    \/ FragmentUnlock("t1")
    \/ PolicyLock("t1")
    \/ PolicyUnlock("t1")
    \/ EnqueueLock("t1")
    \/ EnqueueUnlock("t1")
    \/ Drain

CapSpec == SeqInit /\ [][CapNext]_vars

(***************************************************************************)
(* Fragmenter and reassembly applied to one UDP packet: FragSpec.          *)
(* A UDP packet is fragmented, then its fragments are handed to            *)
(* process_ipv4_fragment one by one in any order.                          *)
(***************************************************************************)

\* UDP packet sizes (header + payload) tried by FragSpec
FragSizes == { UDP_HDR, MTU_UDP - 1, MTU_UDP, MTU_UDP + 1, 2 * MTU_UDP,
               2 * MTU_UDP + 1, 3 * MTU_UDP + 7 }

\* SEED is 42 at start; 65535 is its value after 65493 generated ids
SeedValues == { 42, U16 - 1 }


FragInit ==
    /\ queue = <<>>
    /\ fragments = EmptyTable
    /\ SEED \in SeedValues
    /\ MS = 0
    /\ th = [t \in Threads |-> IdleThread]
    /\ locks = [l \in LockNames |-> NoThread]
    /\ calls = 0
    /\ trace = [on |-> FALSE, log |-> <<>>]
    /\ ep = EpStart
    /\ glue = GlueStart
    /\ \E n \in FragSizes, id \in { 0, 7 } :
          fz = [stage |-> "input",
                udp |-> UdpEmit(1234, 53, MkPayload(n - UDP_HDR, n), ADDR_A, ADDR_B),
                id |-> id, out |-> <<>>, pending |-> {}, log |-> <<>>]

\* fragment_large_udp_packet on the input
DoFragment ==
    /\ fz.stage = "input"
    /\ LET r == fragment_large_udp_packet(fz.udp, ADDR_A, ADDR_B, fz.id, SEED)
       IN  /\ fz' = [fz EXCEPT !.stage = "fragmented", !.out = r.out,
                               !.pending = 1..Len(r.out)]
           /\ SEED' = r.seed
    /\ UNCHANGED << queue, fragments, MS, th, locks, calls, trace, ep, glue >>

\* process_ipv4_fragment(fragment i, timestamp(), table)
Deliver(i) ==
    /\ fz.stage = "fragmented"
    /\ i \in fz.pending
    /\ LET ts == timestamp(MS)
           r  == process_ipv4_fragment(fz.out[i], ts, fragments)
       IN  /\ MS' = ts
           /\ fragments' = r.set
           /\ fz' = [fz EXCEPT !.pending = @ \ {i},
                               !.log = Append(@, [r EXCEPT !.set = i])]
    /\ UNCHANGED << queue, SEED, th, locks, calls, trace, ep, glue >>

FragNext == DoFragment \/ \E i \in 1..4 : Deliver(i)

FragSpec == FragInit /\ [][FragNext]_vars

(***************************************************************************)
(* Both directions and the boundary glue on the component's threads:       *)
(* ConcSpec.  Each thread runs one entry point after the other; what is    *)
(* kept of an entry point is its path through the code, the locks it takes *)
(* and its accesses to SEED and MS; the branch a frame selects is a choice.*)
(***************************************************************************)
\* camkesrust::Mutex::lock and the lock functions of MTX_*: the caller waits
\* until the lock is free
LockFree(l) == ep.locks[l] = NoThread
Acquire(lk, l, t) == [lk EXCEPT ![l] = t]
\* the guard is never dropped: it lives until the thread ends
DropGuardNever(lk, l) == lk
\* the guard of a camkesrust::Mutex goes out of scope (lines 579, 820, 339,
\* 355), or MTX_*.unlock() is called (lines 186, 227, 235, 243)
DropGuard(lk, l) == [lk EXCEPT ![l] = NoThread]

EpUnchanged == UNCHANGED << queue, fragments, SEED, MS, th, locks, calls, trace, fz, glue >>

\* the paths of process_ethernet: "drop" returns without a lock (a frame that
\* fails a check, is filtered or has another EtherType), "arp" and "ip" (an
\* IPv4 packet that is not UDP) go to the queue, "fragment" to the table and
\* "udp" to the policy callout
PathKinds == { "drop", "arp", "ip", "fragment", "udp" }
FirstPc(kind) ==
    CASE kind = "drop" -> "idle"
      [] kind \in { "arp", "ip" } -> "packets"
      [] kind = "fragment" -> "fragments"
      [] kind = "udp" -> "policy"

\* the paths on which MS or SEED can be written
Counting(kind) == kind \in { "fragment", "udp" }

\* process_ethernet(frame, PACKETS(d), FRAGMENTS(d), FN_PACKET(d), _) is
\* called; ep.ops counts the calls that can write MS or SEED
process_ethernet_call(t, d, kind) ==
    /\ ep.th[t].pc = "idle"
    /\ Counting(kind) => ep.ops < MaxOps
    /\ ep' = [ep EXCEPT !.ops = IF Counting(kind) THEN @ + 1 ELSE @,
                        !.th[t] = IF kind = "drop" THEN EpIdle
                                  ELSE [pc |-> FirstPc(kind), op |-> "process_ethernet",
                                        dir |-> d, reg |-> 0]]
    /\ EpUnchanged

\* process_ipv4, line 571: fragment_buffer.lock()
fragments_lock(t) ==
    /\ ep.th[t].pc = "fragments"
    /\ LockFree(FRAGMENTS(ep.th[t].dir))
    /\ ep' = [ep EXCEPT !.locks = Acquire(@, FRAGMENTS(ep.th[t].dir), t),
                        !.th[t].pc = "ms_load"]
    /\ EpUnchanged

\* timestamp, line 280: MS += 1 reads MS ...
timestamp_load(t) ==
    /\ ep.th[t].pc = "ms_load"
    /\ ep' = [ep EXCEPT !.th[t].reg = MS, !.th[t].pc = "ms_store"]
    /\ EpUnchanged

\* ... and writes it back
timestamp_store(t) ==
    /\ ep.th[t].pc = "ms_store"
    /\ MS' = timestamp(ep.th[t].reg)
    /\ ep' = [ep EXCEPT !.th[t].reg = 0, !.th[t].pc = "ms_read"]
    /\ UNCHANGED << queue, fragments, SEED, th, locks, calls, trace, fz, glue >>

\* timestamp, line 282: Instant::from_millis(MS) reads MS again; the value is
\* handed to process_ipv4_fragment with the table of the direction (line 572)
timestamp_read(t) ==
    /\ ep.th[t].pc = "ms_read"
    /\ ep' = [ep EXCEPT !.stamp[ep.th[t].dir] = MS, !.th[t].pc = "fragments_held"]
    /\ EpUnchanged

\* process_ipv4, lines 572-579: process_ipv4_fragment returned an assembled
\* packet, nothing or an error, and the guard goes out of scope
fragments_unlock(t, outcome) ==
    /\ ep.th[t].pc = "fragments_held"
    /\ ep' = [ep EXCEPT !.locks = DropGuard(@, FRAGMENTS(ep.th[t].dir)),
                        !.th[t] = IF outcome = "some"
                                  THEN [@ EXCEPT !.pc = "policy"] ELSE EpIdle]
    /\ EpUnchanged

\* process_udp, line 812: external_firewall_fn.lock()
policy_lock(t) ==
    /\ ep.th[t].pc = "policy"
    /\ LockFree(FN_PACKET(ep.th[t].dir))
    /\ ep' = [ep EXCEPT !.locks = Acquire(@, FN_PACKET(ep.th[t].dir), t),
                        !.th[t].pc = "policy_held"]
    /\ EpUnchanged

\* process_udp, lines 812-820: the callout returns and the guard, a temporary
\* of the statement, is dropped.  The packet is dropped, or rebuilt and given
\* to fragment_large_udp_packet: "one" packet or "fragmented" with the id of
\* the input, or "fragmented0" with an input id of 0
fragments_after_policy(outcome) ==
    CASE outcome \in { "one", "fragmented" } -> "packets"
      [] outcome = "fragmented0" -> "seed_load"

policy_unlock(t, outcome) ==
    /\ ep.th[t].pc = "policy_held"
    /\ ep' = [ep EXCEPT !.locks = DropGuard(@, FN_PACKET(ep.th[t].dir)),
                        !.th[t] = IF outcome = "drop" THEN EpIdle
                                  ELSE [@ EXCEPT !.pc = fragments_after_policy(outcome)]]
    /\ EpUnchanged

\* get_pseudorandom_packet_id, line 271: SEED += 1 reads SEED ...
seed_load(t) ==
    /\ ep.th[t].pc = "seed_load"
    /\ ep' = [ep EXCEPT !.th[t].reg = SEED, !.th[t].pc = "seed_store"]
    /\ EpUnchanged

\* ... and writes it back
seed_store(t) ==
    /\ ep.th[t].pc = "seed_store"
    /\ SEED' = get_pseudorandom_packet_id(ep.th[t].reg)
    /\ ep' = [ep EXCEPT !.th[t].reg = 0, !.th[t].pc = "seed_read"]
    /\ UNCHANGED << queue, fragments, MS, th, locks, calls, trace, fz, glue >>

\* get_pseudorandom_packet_id, line 272: the value returned is SEED, read again
seed_read(t) ==
    /\ ep.th[t].pc = "seed_read"
    /\ ep' = [ep EXCEPT !.ids = Append(@, SEED), !.th[t].pc = "packets"]
    /\ EpUnchanged

\* process_ethernet, lines 334 and 351: packet_buffer.lock()
packets_lock(t) ==
    /\ ep.th[t].pc = "packets"
    /\ LockFree(PACKETS(ep.th[t].dir))
    /\ ep' = [ep EXCEPT !.locks = Acquire(@, PACKETS(ep.th[t].dir), t),
                        !.th[t].pc = "packets_held"]
    /\ EpUnchanged

\* process_ethernet, lines 335-339 and 352-355: the frames are pushed, the
\* guard goes out of scope and process_ethernet returns
packets_unlock(t) ==
    /\ ep.th[t].pc = "packets_held"
    /\ ep' = [ep EXCEPT !.locks = DropGuard(@, PACKETS(ep.th[t].dir)),
                        !.th[t] = EpIdle]
    /\ EpUnchanged

\* the boundary glue, lines 182-245, and the lock each operation takes
GlueOps == { "dispatch_data_to_ethdriver", "next", "copy_data_to_client_buf",
             "fetch_client_data" }
GlueLock(op) ==
    IF op \in { "dispatch_data_to_ethdriver", "next" }
    THEN "MTX_ETHDRIVER_BUF" ELSE "MTX_CLIENT_BUF"

\* a glue operation is called; EthdriverRxStatus::next of an iterator that is
\* finished returns at once (lines 208-210)
glue_call(t, op, finished) ==
    /\ ep.th[t].pc = "idle"
    /\ ep' = [ep EXCEPT !.th[t] = IF op = "next" /\ finished THEN EpIdle
                             ELSE [pc |-> "glue", op |-> op, dir |-> "rx", reg |-> 0]]
    /\ EpUnchanged

\* lines 183, 211, 233, 241: MTX_*.lock()
glue_lock(t) ==
    /\ ep.th[t].pc = "glue"
    /\ LockFree(GlueLock(ep.th[t].op))
    /\ ep' = [ep EXCEPT !.locks = Acquire(@, GlueLock(ep.th[t].op), t),
                        !.th[t].pc = "glue_held"]
    /\ EpUnchanged

\* lines 184-186, 212-227, 234-235, 242-243: the buffer is copied and
\* MTX_*.unlock() is called
glue_unlock(t) ==
    /\ ep.th[t].pc = "glue_held"
    /\ ep' = [ep EXCEPT !.locks = DropGuard(@, GlueLock(ep.th[t].op)),
                        !.th[t] = EpIdle]
    /\ EpUnchanged

\* lines 156, 167, 225: an assert of sel4_buffer_insert / sel4_buffer_fetch
\* fails, or ethdriver_rx returned an unexpected value: the thread panics
\* between lock() and unlock(), and the lock stays taken
glue_panic(t) ==
    /\ ep.th[t].pc = "glue_held"
    /\ ep' = [ep EXCEPT !.th[t].pc = "panicked"]
    /\ EpUnchanged

EpStep(t) ==
    \/ \E d \in Directions, kind \in PathKinds : process_ethernet_call(t, d, kind)
    \/ fragments_lock(t)
    \/ timestamp_load(t)
    \/ timestamp_store(t)
    \/ timestamp_read(t)
    \/ \E outcome \in { "some", "none", "err" } : fragments_unlock(t, outcome)
    \/ policy_lock(t)
    \/ \E outcome \in { "drop", "one", "fragmented", "fragmented0" } :
          policy_unlock(t, outcome)
    \/ seed_load(t)
    \/ seed_store(t)
    \/ seed_read(t)
    \/ packets_lock(t)
    \/ packets_unlock(t)
    \/ \E op \in GlueOps, finished \in BOOLEAN : glue_call(t, op, finished)
    \/ glue_lock(t)
    \/ glue_unlock(t)
    \/ glue_panic(t)

ConcNext == \E t \in EpThreads : EpStep(t)

ConcSpec == Init /\ [][ConcNext]_vars

(***************************************************************************)
(* The boundary glue with its data, one operation after the other:         *)
(* GlueSpec.  The driver's status and length, the frame's length and the   *)
(* buffer pointers are choices.                                            *)
(***************************************************************************)
\* `len as usize` of an i32: a negative value becomes a value near the top
\* of usize
as_usize(n) == IF n < 0 THEN USIZE + n ELSE n

\* ethdriver_buf_value / client_buf_value (lines 134-149) and the asserts of
\* sel4_buffer_insert / sel4_buffer_fetch (lines 152-176): what fails, if
\* anything, for a buffer pointer and a length
BufferCheck(len, is_null) ==
    IF is_null THEN "null"
    ELSE IF ~(len < BUFFER_SIZE) THEN "length"
    ELSE "ok"

GlueUnchanged ==
    UNCHANGED << queue, fragments, SEED, MS, th, locks, calls, trace, fz, ep >>

\* an operation on a buffer between lock() and unlock(): it returns with the
\* lock released, or an assert fails and the component aborts with the lock
\* still taken
BufferOp(op, mtx, len, is_null, ret) ==
    LET check == BufferCheck(len, is_null)
    IN  IF check = "ok"
        THEN [glue EXCEPT !.n = @ + 1,
                          !.last = [op |-> op, len |-> len, ret |-> ret]]
        ELSE [glue EXCEPT !.n = @ + 1, !.pc = "aborted", !.cause = check,
                          !.held = { mtx },
                          !.last = [op |-> op, len |-> len, ret |-> "abort"]]

\* lines 182-188: the frame is copied into the driver's buffer, ethdriver_tx
\* is called with its length and its status is returned
dispatch_data_to_ethdriver(len, is_null, ret) ==
    /\ glue.pc = "ready"
    /\ glue.n < MaxGlueCalls
    /\ glue' = BufferOp("dispatch_data_to_ethdriver", "MTX_ETHDRIVER_BUF", len, is_null, ret)
    /\ GlueUnchanged

\* lines 232-237: the frame is copied into the client's buffer, its length
\* is returned
copy_data_to_client_buf(len, is_null) ==
    /\ glue.pc = "ready"
    /\ glue.n < MaxGlueCalls
    /\ glue' = BufferOp("copy_data_to_client_buf", "MTX_CLIENT_BUF", len, is_null, len)
    /\ GlueUnchanged

\* lines 240-245: len bytes are copied out of the client's buffer
fetch_client_data(len, is_null) ==
    /\ glue.pc = "ready"
    /\ glue.n < MaxGlueCalls
    /\ glue' = BufferOp("fetch_client_data", "MTX_CLIENT_BUF", len, is_null, len)
    /\ GlueUnchanged

\* lines 207-229: EthdriverRxStatus::next.  A finished iterator returns None
\* at once; otherwise ethdriver_rx is called under the lock: -1 gives None,
\* 0 and 1 give the frame fetched from the buffer (0 sets finished first),
\* any other value panics.  glue.log has one entry for each ethdriver_rx call
next(status, len, is_null) ==
    /\ glue.pc = "ready"
    /\ glue.n < MaxGlueCalls
    /\ glue' =
         IF glue.finished
         THEN [glue EXCEPT !.n = @ + 1, !.last = [op |-> "next", ret |-> "None"]]
         ELSE IF status = -1
         THEN [glue EXCEPT !.n = @ + 1,
                           !.log = Append(@, [status |-> status, returned |-> TRUE,
                                              yielded |-> FALSE]),
                           !.last = [op |-> "next", ret |-> "None"]]
         ELSE IF status \in { 0, 1 }
         THEN LET check == BufferCheck(as_usize(len), is_null)
              IN  IF check = "ok"
                  THEN [glue EXCEPT !.n = @ + 1,
                                    !.finished = (status = 0),
                                    !.log = Append(@, [status |-> status, returned |-> TRUE,
                                                       yielded |-> TRUE]),
                                    !.last = [op |-> "next", ret |-> "Some", len |-> len]]
                  ELSE [glue EXCEPT !.n = @ + 1,
                                    !.finished = (status = 0),
                                    !.pc = "aborted", !.cause = check,
                                    !.held = { "MTX_ETHDRIVER_BUF" },
                                    !.log = Append(@, [status |-> status, returned |-> FALSE,
                                                       yielded |-> FALSE]),
                                    !.last = [op |-> "next", ret |-> "abort"]]
         ELSE [glue EXCEPT !.n = @ + 1,
                           !.pc = "aborted", !.cause = "status",
                           !.held = { "MTX_ETHDRIVER_BUF" },
                           !.log = Append(@, [status |-> status, returned |-> FALSE,
                                              yielded |-> FALSE]),
                           !.last = [op |-> "next", ret |-> "abort"]]
    /\ GlueUnchanged

\* the lengths of a frame handed to the glue and the lengths and statuses
\* the driver reports
FrameLens == { 0, BUFFER_SIZE - 1, BUFFER_SIZE, BUFFER_SIZE + 1 }
DriverLens == FrameLens \cup { -1 }
DriverStatus == { -1, 0, 1, 2 }

GlueNext ==
    \/ \E len \in FrameLens, is_null \in BOOLEAN, ret \in { 0, -1 } :
          dispatch_data_to_ethdriver(len, is_null, ret)
    \/ \E len \in FrameLens, is_null \in BOOLEAN : copy_data_to_client_buf(len, is_null)
    \/ \E len \in FrameLens, is_null \in BOOLEAN : fetch_client_data(len, is_null)
    \/ \E status \in DriverStatus, len \in DriverLens, is_null \in BOOLEAN :
          next(status, len, is_null)

GlueSpec == Init /\ [][GlueNext]_vars

(***************************************************************************)
(* Claims on the fragmenter and on the round trip (FragSpec)               *)
(***************************************************************************)
FzPayloads == [i \in 1..Len(fz.out) |-> fz.out[i].payload]

\* C2: a UDP packet larger than MTU_UDP is cut into fragments whose payloads
\* concatenate to the packet; every non-final fragment carries MTU_UDP bytes
\* with MF=1, the final one at most MTU_UDP bytes with MF=0; the byte offsets
\* are 0, MTU_UDP, 2*MTU_UDP, ... (multiples of 8); one identification.
C2_FragmentsPartitionPacket ==
    (fz.stage = "fragmented" /\ Len(fz.udp) > MTU_UDP) =>
        LET n == Len(fz.out)
        IN  /\ n >= 2
            /\ Flatten(FzPayloads) = fz.udp
            /\ \A i \in 1..(n - 1) : Len(fz.out[i].payload) = MTU_UDP /\ fz.out[i].mf
            /\ Len(fz.out[n].payload) <= MTU_UDP /\ ~fz.out[n].mf
            /\ \A i \in 1..n : /\ frag_offset(fz.out[i]) = (i - 1) * MTU_UDP
                               /\ frag_offset(fz.out[i]) % 8 = 0
                               /\ fz.out[i].ident = fz.out[1].ident

C2_Witness ==
    /\ fz.stage = "fragmented"
    /\ Len(fz.udp) = 3 * MTU_UDP + 7
    /\ Len(fz.out) = 4

\* C3: a UDP packet of at most MTU_UDP bytes (MTU_UDP included) leaves the
\* fragmenter as exactly one unfragmented IPv4 packet (MF=0, offset 0, DF=0)
\* that carries the whole packet under the input identification.
C3_SmallPacketOnePacket ==
    (fz.stage = "fragmented" /\ Len(fz.udp) <= MTU_UDP) =>
        /\ Len(fz.out) = 1
        /\ ~fz.out[1].mf /\ frag_offset(fz.out[1]) = 0 /\ ~fz.out[1].df
        /\ fz.out[1].payload = fz.udp
        /\ fz.out[1].ident = fz.id

\* C6: the fragments of one datagram, handed to reassembly in any order,
\* yield the datagram on the call that delivers the last missing fragment and
\* on no other call, and its payload is the UDP packet that was fragmented.
C6_RoundTrip ==
    \A k \in 1..Len(fz.log) :
        LET r == fz.log[k]
        IN  /\ r.kind # "err"
            /\ (r.kind = "some") <=> (k = Len(fz.out))
            /\ (r.kind = "some") =>
                  /\ r.val.payload = fz.udp
                  /\ r.val.tlen = IPV4_HEADER_LEN + Len(fz.udp)
                  /\ r.val.csum = IpChecksumOf(r.val)
                  /\ r.val.src = ADDR_A /\ r.val.dst = ADDR_B
                  /\ r.val.proto = PROTO_UDP
                  /\ r.val.ident = fz.out[1].ident

\* four fragments, the last one delivered first, the datagram returned
C6_Witness ==
    /\ Len(fz.out) = 4
    /\ Len(fz.log) = 4
    /\ fz.log[1].set = 4
    /\ fz.log[4].set = 2
    /\ fz.log[4].kind = "some"

C4Len == 3 * MTU_UDP - UDP_HDR + 7

C4Case(t) ==
    /\ th[t].pc \in { "enqueue", "enqueue_held", "done" }
    /\ th[t].called
    /\ th[t].ret = C4Len

C5_PolicyDecides ==
    \A t \in Threads :
        (th[t].called /\ th[t].pc \in { "enqueue", "enqueue_held", "done" }) =>
            LET ok == th[t].ret > 0 /\ th[t].ret <= MAX_UDP_PACKET_SIZE
                udp == Flatten([i \in 1..Len(th[t].produced) |->
                                   th[t].produced[i].ip.payload])
            IN  /\ ok <=> (th[t].produced # <<>>)
                /\ ok => /\ UdpParse(udp, th[t].ip.src, th[t].ip.dst) = "ok"
                         /\ Len(UdpPayload(udp)) = th[t].ret
                         /\ UdpPayload(udp) = th[t].udp_data
                         /\ UdpSrcPort(udp) = UdpSrcPort(th[t].ip.payload)
                         /\ UdpDstPort(udp) = UdpDstPort(th[t].ip.payload)
                         /\ (th[t].pc = "done" => th[t].result = "Ok")
                /\ ~ok => /\ th[t].pc = "done"
                          /\ th[t].result = "Dropped"
                          /\ th[t].pushed = <<>>

\* a rejection by a value above the bound and an accept at the bound
C5_Witness ==
    /\ th["t1"].pc = "done" /\ th["t1"].called
    /\ th["t1"].ret = MAX_UDP_PACKET_SIZE + 1 /\ th["t1"].result = "Dropped"
    /\ th["t2"].pc = "done" /\ th["t2"].called
    /\ th["t2"].ret = MAX_UDP_PACKET_SIZE /\ th["t2"].result = "Ok"

\* an ARP frame that the MAC filter lets through
ArpPasses(s) ==
    /\ s.frame # NoFrame
    /\ s.frame.len_ok
    /\ s.frame.ethertype = ETHERTYPE_ARP
    /\ \/ ~s.check_mac
       \/ s.frame.dst = MAC_BROADCAST
       \/ s.frame.dst[1] % 2 = 1
       \/ s.frame.dst = CLIENT_MAC_ADDRESS

\* C10: an ARP frame that passes the MAC filter is pushed to the tail of the
\* queue unchanged when the queue has room; the invocation does not touch the
\* fragment table, does not call the policy and returns Ok.
C10_ArpPassThrough ==
    [][ \A t \in Threads :
          (th'[t] # th[t] /\ ArpPasses(th'[t])) =>
              /\ th'[t].pc \in { "enqueue", "enqueue_held", "done" }
              /\ th'[t].produced = << Inputs[th'[t].inp].frame >>
              /\ ~th'[t].called
              /\ fragments' = fragments
              /\ (th'[t].pc = "enqueue") => queue' = queue
              /\ (th'[t].pc = "enqueue_held") =>
                    queue' = IF Len(queue) < MAX_ENQUEUED_PACKETS
                             THEN Append(queue, Inputs[th'[t].inp].frame)
                             ELSE queue
              /\ (th'[t].pc = "done") => (th'[t].result = "Ok" /\ queue' = queue)
      ]_vars

\* a broadcast ARP frame was pushed behind a frame of the other thread
C10_Witness ==
    /\ th["t1"].pc = "done" /\ th["t1"].inp = 1 /\ th["t1"].result = "Ok"
    /\ Len(th["t1"].pushed) = 1
    /\ Len(queue) = 2 /\ queue[2] = Inputs[1].frame /\ queue[1] # Inputs[1].frame

(***************************************************************************)
(* Claims on reassembly in the pipeline (ReasmSpec)                        *)
(***************************************************************************)
\* the IPv4 packet of the frame that t is processing, and its key
FrameIp(t) == Inputs[th[t].inp].frame.ip

FrameKey(t) == << FrameIp(t).ident, FrameIp(t).src, FrameIp(t).dst >>

\* the entry holds the payload bytes of packet p at p's offset
Retains(e, p) ==
    \A k \in 1..Len(p.payload) :
        /\ (frag_offset(p) + k - 1) \in DOMAIN e.data
        /\ e.data[frag_offset(p) + k - 1] = p.payload[k]

ThreeFragments == { [first |-> 9, mid |-> 10, last |-> 11, udp |-> DatagramA],
                    [first |-> 12, mid |-> 13, last |-> 14, udp |-> DatagramD] }

\* the first invocations of the run were d's fragments in reverse order
ReverseFed(d, n) ==
    /\ Len(trace.log) >= n
    /\ n >= 1 => trace.log[1].inp = d.last
    /\ n >= 2 => trace.log[2].inp = d.mid
    /\ n >= 3 => trace.log[3].inp = d.first

\* the third invocation has returned and the policy accepted the payload as it was
ReverseDone(d) ==
    /\ ReverseFed(d, 3)
    /\ Len(trace.log) = 3
    /\ th["t1"].pc = "done" /\ th["t1"].inp = d.first
    /\ th["t1"].called
    /\ th["t1"].ret = Len(UdpPayload(d.udp))
    /\ th["t1"].udp_data = UdpPayload(d.udp)

\* the first two invocations returned Fragmented, the queue as it was (empty)
FirstTwoFragmented(d) ==
    \A n \in 1..2 : ReverseFed(d, n) =>
        /\ trace.log[n].result = "Fragmented"
        /\ trace.log[n].pushed = 0
        /\ (Len(trace.log) = n /\ th["t1"].pc = "done") => queue = <<>>

ReturnsError(t) ==
    /\ th[t].pc # "done" \/ th'[t].inp # th[t].inp
    /\ th'[t].pc = "done"
    /\ th'[t].result # "Ok"

\* t's call of process_ipv4_fragment is this step
FragmentCall(t) == th[t].pc = "fragment" /\ th'[t].pc = "fragment_held"

\* C9 as stated: when process_ethernet returns an error the queue is as it
\* was before the call and the table entries of every key other than the
\* frame's are unchanged.
C9_ErrorsTouchOwnKeyOnly ==
    [][ \A t \in Threads :
          /\ ReturnsError(t) => (th'[t].pushed = <<>> /\ queue' = queue)
          /\ (FragmentCall(t) /\ th'[t].fr # "some") =>
                \A i \in DOMAIN fragments :
                    (~fragments[i].empty /\ KeyOf(fragments[i]) # FrameKey(t))
                        => fragments'[i] = fragments[i]
      ]_vars

\* entry i was found stale by the lookup of t's call and taken for t's frame
Evicted(t, i) ==
    /\ MS' - fragments[i].last_used > STALE_AFTER
    /\ \A j \in DOMAIN fragments :
          ~fragments[j].empty /\ KeyOf(fragments[j]) # FrameKey(t)
    /\ fragments'[i].empty \/ KeyOf(fragments'[i]) = FrameKey(t)
    /\ \A j \in DOMAIN fragments : j # i => fragments'[j] = fragments[j]

\* C9: when process_ethernet returns an error it has pushed nothing and the
\* queue is as it was; its call of process_ipv4_fragment (of an invocation
\* that returns an error or not) leaves the table entries of every other key
\* unchanged, except one entry that the lookup finds stale when no entry
\* holds the frame's key and none is empty: that entry is reset and taken.
C9_ErrorsTouchOwnKeyOrStale ==
    [][ /\ \A t \in Threads :
             /\ ReturnsError(t) => (th'[t].pushed = <<>> /\ queue' = queue)
             /\ FragmentCall(t) =>
                   \A i \in DOMAIN fragments :
                       (~fragments[i].empty /\ KeyOf(fragments[i]) # FrameKey(t))
                           => (fragments'[i] = fragments[i] \/ Evicted(t, i))
        /\ (fragments' # fragments) => \E t \in Threads : FragmentCall(t)
      ]_vars

\* a fragment of datagram D took the stale entry of key B and was Fragmented
C9_Witness ==
    /\ th["t1"].pc = "done" /\ th["t1"].result = "Fragmented" /\ th["t1"].inp = 12
    /\ Len(trace.log) = 4 /\ trace.log[1].inp = 15 /\ trace.log[3].result = "FragmentSetFull"
    /\ \A i \in DOMAIN fragments :
          ~fragments[i].empty /\ fragments[i].id # IDENT_B

(***************************************************************************)
(* Claims on frame dispatch (Spec)                                         *)
(***************************************************************************)
\* t's frame is well-formed and its EtherType is neither IPv4 nor ARP
OtherEtherType(s) ==
    /\ s.frame # NoFrame
    /\ s.frame.len_ok
    /\ s.frame.ethertype \notin { ETHERTYPE_IPV4, ETHERTYPE_ARP }

BeginStep(t) == th[t].pc \in { "idle", "done" } /\ th'[t] # th[t]

\* the destination of the frame is a unicast address other than the local one
ForeignUnicast(frame) == frame.dst[1] % 2 = 0 /\ frame.dst # CLIENT_MAC_ADDRESS

AcceptedUnchanged(t) ==
    /\ th[t].pc \in { "enqueue", "enqueue_held", "done" }
    /\ th[t].called
    /\ ~FrameIp(t).mf /\ FrameIp(t).off8 = 0
    /\ th[t].ret = Len(UdpPayload(FrameIp(t).payload))
    /\ th[t].udp_data = UdpPayload(FrameIp(t).payload)

\* frame a equals frame b but for the IPv4 identification and the checksums
SameButIdAndChecksums(a, b) ==
    /\ [a EXCEPT !.ip = 0] = [b EXCEPT !.ip = 0]
    /\ [a.ip EXCEPT !.ident = 0, !.csum = 0, !.payload = 0]
          = [b.ip EXCEPT !.ident = 0, !.csum = 0, !.payload = 0]
    /\ UdpSrcPort(a.ip.payload) = UdpSrcPort(b.ip.payload)
    /\ UdpDstPort(a.ip.payload) = UdpDstPort(b.ip.payload)
    /\ UdpLenField(a.ip.payload) = UdpLenField(b.ip.payload)
    /\ UdpPayload(a.ip.payload) = UdpPayload(b.ip.payload)

IcmpOrIgmp(s) ==
    /\ s.frame # NoFrame
    /\ s.frame.len_ok
    /\ s.frame.ethertype = ETHERTYPE_IPV4
    /\ s.frame.ip.proto \in { PROTO_ICMP, PROTO_IGMP }
    /\ ~s.check_mac \/ s.frame.dst = CLIENT_MAC_ADDRESS

\* C15: an IPv4 frame with protocol ICMP or IGMP leaves process_ipv4 as
\* exactly one frame, the input frame itself (a trailing CRC included); the
\* policy is not called and the fragment table is not touched, also when the
\* packet has MF=1 or an offset above 0; process_ethernet pushes that frame
\* when the queue has room and returns Ok.
C15_IcmpIgmpPassThrough ==
    [][ \A t \in Threads :
          (th'[t] # th[t] /\ IcmpOrIgmp(th'[t])) =>
              /\ th'[t].pc \in { "enqueue", "enqueue_held", "done" }
              /\ th'[t].produced = << th'[t].frame >>
              /\ th'[t].frame = Inputs[th'[t].inp].frame
              /\ ~th'[t].called
              /\ th'[t].fr = "na"
              /\ fragments' = fragments
              /\ (th'[t].pc = "enqueue_held") =>
                    queue' = IF Len(queue) < MAX_ENQUEUED_PACKETS
                             THEN Append(queue, th'[t].frame) ELSE queue
              /\ (th'[t].pc = "done") => th'[t].result = "Ok"
      ]_vars

\* an ICMP packet with MF=1 was pushed as it came, after an IGMP packet
C15_Witness ==
    /\ th["t1"].pc = "done" /\ th["t1"].result = "Ok" /\ th["t1"].inp = 23
    /\ th["t1"].frame.ip.proto = PROTO_ICMP /\ th["t1"].frame.ip.mf
    /\ Len(trace.log) = 2 /\ trace.log[1].inp = 25 /\ trace.log[1].pushed = 1
    /\ queue = << Inputs[25].frame, Inputs[23].frame >>

(***************************************************************************)
(* Claims on the policy callout's buffer (IpSpec)                          *)
(***************************************************************************)
\* C16: the bytes read back from the payload buffer after the callout, for
\* a return value the pipeline accepts, are never more than the capacity
\* that was handed to the callee.
C16_ReadBackWithinCapacity ==
    \A t \in Threads :
        (th[t].called /\ th[t].ret > 0 /\ th[t].ret <= MAX_UDP_PACKET_SIZE) =>
            /\ Len(th[t].udp_data) <= max_data_len
            /\ \A i \in 1..Len(th[t].produced) :
                  Len(th[t].produced[i].ip.payload) <= UDP_HDR + max_data_len

(***************************************************************************)
(* Claim on the identification of the fragments (FragSpec)                 *)
(***************************************************************************)
\* C26: the fragments of a datagram that was split share one identification:
\* the input's when that is not 0, a generated one otherwise, and never 0,
\* whatever the value of SEED was before.
C26_IdentNonZero ==
    (fz.stage \in { "fragmented" } /\ Len(fz.out) > 1) =>
        /\ \A i \in 1..Len(fz.out) : fz.out[i].ident = fz.out[1].ident
        /\ fz.id # 0 => fz.out[1].ident = fz.id
        /\ fz.out[1].ident # 0

(***************************************************************************)
(* Claims on the order of the frames in the queue (Spec)                   *)
(***************************************************************************)
\* t's pushes are this step
EnqueueStep(t) == th[t].pc = "enqueue" /\ th'[t].pc = "enqueue_held"

\* C25: the frames an invocation adds to the queue are a prefix of the frames
\* it produced, appended at the tail in the order produced (increasing
\* fragment offset) and next to each other, whatever the other invocation
\* and the consumer do; no other step of an invocation changes the queue.
C25_PushedPrefixContiguous ==
    [][ /\ \A t \in Threads :
              EnqueueStep(t) =>
                 /\ \E k \in 0..Len(th[t].produced) :
                       th'[t].pushed = SubSeq(th[t].produced, 1, k)
                 /\ queue' = queue \o th'[t].pushed
                 /\ \A i, j \in 1..Len(th'[t].pushed) :
                       (i < j /\ th'[t].pushed[i].ip # NoPacket
                              /\ th'[t].pushed[i].ip.mf) =>
                          frag_offset(th'[t].pushed[i].ip) < frag_offset(th'[t].pushed[j].ip)
        /\ (queue' # queue) =>
              \/ \E t \in Threads : EnqueueStep(t)
              \/ queue' = Tail(queue) /\ th' = th
      ]_vars

\* t1 pushed the first two of its four fragments, next to each other, while
\* t2 waits for the queue lock with a frame of its own
C25_Witness ==
    /\ th["t1"].pc = "enqueue_held"
    /\ Len(th["t1"].produced) = 4 /\ Len(th["t1"].pushed) = 2
    /\ queue = << th["t1"].produced[1], th["t1"].produced[2] >>
    /\ frag_offset(queue[1].ip) = 0 /\ frag_offset(queue[2].ip) = MTU_UDP
    /\ th["t2"].pc = "enqueue" /\ th["t2"].packets # <<>>

(***************************************************************************)
(* Claim on completion (LiveSpec)                                          *)
(***************************************************************************)
\* t is inside process_ethernet
Running(t) == th[t].pc \notin { "idle", "done" }

\* the fragmenter's last packet carries what remained of the UDP packet: at
\* least 0 and at most MTU_UDP bytes, after the bytes of the packets before
LastFragmentRemains(out) ==
    LET last == out[Len(out)].ip
    IN  /\ ~last.mf
        /\ Len(last.payload) \in 0..MTU_UDP
        /\ frag_offset(last) = (Len(out) - 1) * MTU_UDP

\* C27: every process_ethernet invocation that started returns Ok or an
\* error (the policy callout returns, lock acquisition is fair), for every
\* input frame and interleaving; a thread that is not inside an invocation
\* holds no lock; the fragmenter ends with a last packet of 0 to MTU_UDP
\* remaining bytes.
C27_RunsToCompletion ==
    /\ \A t \in Threads : Running(t) ~> (th[t].pc = "done")
    /\ [](\A t \in Threads :
             /\ ~Running(t) => \A l \in LockNames : locks[l] # t
             /\ th[t].pc = "done" => th[t].result # "none"
             /\ Len(th[t].produced) > 1 => LastFragmentRemains(th[t].produced))

\* both threads went through the policy callout and returned, one with Ok
\* and four frames produced, the other with its packet dropped, and every
\* lock is free again
C27_Witness ==
    /\ th["t1"].pc = "done" /\ th["t1"].result = "Ok" /\ Len(th["t1"].produced) = 4
    /\ th["t2"].pc = "done" /\ th["t2"].result = "Dropped" /\ th["t2"].called
    /\ \A l \in LockNames : locks[l] = NoThread
    /\ calls = MaxLiveCalls

(***************************************************************************)
(* Claims on the completion of a datagram and on the table (ReasmSpec)     *)
(***************************************************************************)
\* the offsets of the datagram's payload that packet p carries
RangeOf(p) == { frag_offset(p) + k - 1 : k \in 1..Len(p.payload) }

\* the entries of the table that hold the key of p
HoldKey(table, p) ==
    { i \in DOMAIN table : ~table[i].empty /\ KeyOf(table[i]) = << p.ident, p.src, p.dst >> }

\* the entry of p's key before the call; an empty one when there is none
PriorEntry(p) ==
    IF HoldKey(fragments, p) = {} THEN EmptyEntry
    ELSE fragments[CHOOSE i \in HoldKey(fragments, p) : TRUE]

\* with p added to what the table holds of its key, the total length is known
\* and the header and every payload byte below the total length are there
CompleteWith(p) ==
    LET e      == PriorEntry(p)
        total  == IF ~p.mf THEN frag_offset(p) + p.tlen ELSE e.total_len
        hlen   == IF frag_offset(p) = 0 THEN p.hlen
                  ELSE IF e.hdr # NoPacket THEN e.hdr.hlen ELSE 0
        filled == (DOMAIN e.data) \cup RangeOf(p)
    IN  /\ total # 0
        /\ hlen # 0
        /\ \A o \in 0..(total - hlen - 1) : o \in filled

\* C19: process_ipv4_fragment returns an assembled datagram iff, with the
\* call's fragment added, the total length is known and the bytes below it
\* are all there; the entry is then reset, no entry holds the key any more,
\* and a fragment whose key has no entry starts an entry with its bytes only.
C19_CompleteIffCovered ==
    [][ \A t \in Threads :
          FragmentCall(t) =>
            LET p == th[t].ip
            IN  /\ (th'[t].fr = "some") <=> CompleteWith(p)
                /\ (th'[t].fr = "some") =>
                      /\ HoldKey(fragments', p) = {}
                      /\ \A i \in DOMAIN fragments :
                            (~fragments[i].empty /\ fragments'[i] # fragments[i])
                                => fragments'[i] = EmptyEntry
                /\ (th'[t].fr = "none" /\ HoldKey(fragments, p) = {}) =>
                      \E i \in HoldKey(fragments', p) :
                         /\ DOMAIN fragments'[i].data = RangeOf(p)
                         /\ fragments'[i].total_len =
                               IF p.mf THEN 0 ELSE frag_offset(p) + p.tlen
      ]_vars

\* datagram A was returned at its third fragment; its first fragment, sent
\* again, is alone in a fresh entry
C19_Witness ==
    /\ Len(trace.log) = 4
    /\ trace.log[1].inp = 9 /\ trace.log[2].inp = 10 /\ trace.log[3].inp = 11
    /\ trace.log[3].result \in { "Ok", "Dropped" }
    /\ trace.log[4].inp = 9 /\ trace.log[4].result = "Fragmented"
    /\ \E i \in DOMAIN fragments :
          /\ KeyOf(fragments[i]) = << IDENT_A, ADDR_A, ADDR_B >>
          /\ DOMAIN fragments[i].data = 0..7
          /\ fragments[i].total_len = 0
    /\ Cardinality({ i \in DOMAIN fragments : ~fragments[i].empty }) = 1

\* the entries that hold a datagram in flight
InFlight == { i \in DOMAIN fragments : ~fragments[i].empty }

\* C20: after any sequence of arrivals, completions, resets and reuse of
\* stale entries, no two non-empty entries of the table hold the same key,
\* and at most SUPPORTED_FRAGMENTS datagrams are in flight, each with at least
\* one fragment's bytes.
C20_OneEntryPerKey ==
    /\ \A i, j \in InFlight : i # j => KeyOf(fragments[i]) # KeyOf(fragments[j])
    /\ Cardinality(InFlight) <= SUPPORTED_FRAGMENTS
    /\ \A i \in InFlight : fragments[i].data # <<>>

\* the table was full with A and D; A went stale and its entry was taken for
\* B: two datagrams in flight, B and D
C20_Witness ==
    /\ Len(trace.log) = 4
    /\ trace.log[1].inp = 9 /\ trace.log[2].inp = 12
    /\ trace.log[3].inp = 13 /\ trace.log[4].inp = 15
    /\ Cardinality(InFlight) = SUPPORTED_FRAGMENTS
    /\ { KeyOf(fragments[i]) : i \in InFlight } =
          { << IDENT_B, ADDR_A, ADDR_B >>, << IDENT_D, ADDR_A, ADDR_B >> }

\* the table has no entry for a fragment of a new key at the time of the
\* call: every entry holds another key and none is stale
NoEntryFor(p) ==
    /\ HoldKey(fragments, p) = {}
    /\ \A i \in DOMAIN fragments :
          ~fragments[i].empty /\ ~IsStale(fragments[i], timestamp(MS))

\* C21: a UDP fragment of a new key that arrives while every entry holds
\* another key and none is stale makes process_ethernet return
\* FragmentSetFull with table and queue unchanged and nothing pushed; when an
\* entry holds the key, is empty or is stale, FragmentSetFull is not returned
\* and a fragment that fits the buffer is stored or completes its datagram.
C21_FullTableRejects ==
    [][ \A t \in Threads :
          /\ FragmentCall(t) =>
                LET p == th[t].ip
                IN  IF NoEntryFor(p)
                    THEN /\ th'[t].fr = "FragmentSetFull"
                         /\ fragments' = fragments
                         /\ queue' = queue
                    ELSE /\ th'[t].fr # "FragmentSetFull"
                         /\ EntryFits(p.hlen, frag_offset(p), Len(p.payload)) =>
                               \/ th'[t].fr = "some"
                               \/ /\ th'[t].fr = "none"
                                  /\ \E i \in HoldKey(fragments', p) :
                                        Retains(fragments'[i], p)
          /\ (th[t].pc = "fragment_held" /\ th[t].fr = "FragmentSetFull"
                /\ th'[t] # th[t]) =>
                /\ th'[t].pc = "done"
                /\ th'[t].result = "FragmentSetFull"
                /\ th'[t].pushed = <<>>
                /\ ~th'[t].called
                /\ queue' = queue
                /\ fragments' = fragments
      ]_vars

\* the table holds A and D, both fresh, when the fragment of B arrives
C21_Witness ==
    /\ Len(trace.log) = 3
    /\ trace.log[1].inp = 9 /\ trace.log[2].inp = 12 /\ trace.log[3].inp = 15
    /\ trace.log[3].result = "FragmentSetFull" /\ trace.log[3].pushed = 0
    /\ th["t1"].pc = "done" /\ th["t1"].result = "FragmentSetFull"
    /\ { KeyOf(fragments[i]) : i \in InFlight } =
          { << IDENT_A, ADDR_A, ADDR_B >>, << IDENT_D, ADDR_A, ADDR_B >> }
    /\ queue = <<>>

(***************************************************************************)
(* Claims on the capacity of the reassembly buffer (CapSpec)               *)
(***************************************************************************)
\* t's call of process_ipv4_fragment is this step and its fragment reaches
\* beyond the buffer
TooLargeCall(t) ==
    /\ FragmentCall(t)
    /\ ~EntryFits(th[t].ip.hlen, frag_offset(th[t].ip), Len(th[t].ip.payload))

\* no byte of an entry lies beyond the buffer
WithinBuffer(table) ==
    \A i \in DOMAIN table : \A o \in DOMAIN table[i].data :
        IPV4_HEADER_LEN + o < MAX_REASSEMBLED_FRAGMENT_SIZE

\* one entry of the table, the key's if the table held one, is empty after
\* the step and the others are as before
OneEntryReset(p) ==
    \E i \in DOMAIN fragments :
        /\ fragments'[i] = EmptyEntry
        /\ HoldKey(fragments, p) # {} => i \in HoldKey(fragments, p)
        /\ \A j \in DOMAIN fragments : j # i => fragments'[j] = fragments[j]

\* C22 as stated: no byte is written beyond the buffer, and every fragment
\* that reaches beyond it makes process_ipv4_fragment return TooManyFragments
\* with one entry reset and the others unchanged.
C22_TooLargeResets ==
    [][ /\ WithinBuffer(fragments')
        /\ \A t \in Threads :
              TooLargeCall(t) =>
                 /\ th'[t].fr = "TooManyFragments"
                 /\ HoldKey(fragments', th[t].ip) = {}
                 /\ OneEntryReset(th[t].ip)
      ]_vars

\* C22, amended: no byte is written beyond the buffer; a fragment that
\* reaches beyond it and for which the lookup gives an entry (the key's, an
\* empty or a stale one) resets that entry, with the total length the same
\* fragment may have set, and returns TooManyFragments, the other entries
\* unchanged; with a table full of other, fresh keys it is refused with
\* FragmentSetFull and no entry changes.
C22_TooLargeResetsOrFull ==
    [][ /\ WithinBuffer(fragments')
        /\ \A t \in Threads :
              TooLargeCall(t) =>
                 IF NoEntryFor(th[t].ip)
                 THEN /\ th'[t].fr = "FragmentSetFull"
                      /\ fragments' = fragments
                 ELSE /\ th'[t].fr = "TooManyFragments"
                      /\ HoldKey(fragments', th[t].ip) = {}
                      /\ OneEntryReset(th[t].ip)
      ]_vars

\* the first fragment of A was held; A's last fragment, beyond the buffer,
\* returned TooManyFragments and nothing of A is left, D's entry is as it was
C22_Witness ==
    /\ Len(trace.log) = 3
    /\ trace.log[1].inp = 9 /\ trace.log[2].inp = 12 /\ trace.log[3].inp = 26
    /\ trace.log[3].result = "TooManyFragments"
    /\ { KeyOf(fragments[i]) : i \in InFlight } = { << IDENT_D, ADDR_A, ADDR_B >> }
    /\ \A i \in DOMAIN fragments : fragments[i].empty => fragments[i] = EmptyEntry

(***************************************************************************)
(* Claims on the threads of both directions and the glue (ConcSpec)        *)
(***************************************************************************)
HeldBy(t) == { l \in EpLocks : ep.locks[l] = t }
\* the lock a thread is waiting for, if any
WaitsFor(t) ==
    CASE ep.th[t].pc = "fragments" -> { FRAGMENTS(ep.th[t].dir) }
      [] ep.th[t].pc = "policy" -> { FN_PACKET(ep.th[t].dir) }
      [] ep.th[t].pc = "packets" -> { PACKETS(ep.th[t].dir) }
      [] ep.th[t].pc = "glue" -> { GlueLock(ep.th[t].op) }
      [] OTHER -> {}

\* C14: in every interleaving of ingress, egress and glue operations each
\* thread holds at most one of the component's locks, so no two threads wait
\* for a lock the other holds.
C14_AtMostOneLock ==
    /\ \A t \in EpThreads : Cardinality(HeldBy(t)) <= 1
    /\ \A t \in EpThreads : HeldBy(t) # {} => WaitsFor(t) = {}
    /\ ~ \E t, u \in EpThreads :
            /\ t # u
            /\ WaitsFor(t) \cap HeldBy(u) # {}
            /\ WaitsFor(u) \cap HeldBy(t) # {}

\* thread a went through the fragment table of ingress and now holds the
\* policy lock, while thread b, in the glue, holds the driver buffer's lock
C14_Witness ==
    /\ ep.ops = 1
    /\ ep.th["a"].pc = "policy_held" /\ ep.th["a"].dir = "rx"
    /\ ep.stamp["rx"] = 1
    /\ HeldBy("a") = { "FN_PACKET_IN" }
    /\ ep.th["b"].pc = "glue_held" /\ ep.th["b"].op = "next"
    /\ HeldBy("b") = { "MTX_ETHDRIVER_BUF" }

\* C17: every call of get_pseudorandom_packet_id increments SEED once and no
\* two calls return the same value: with no call in progress SEED is 42 plus
\* the number of calls, and the ids returned are all different.
InSeed(t) == ep.th[t].pc \in { "seed_load", "seed_store", "seed_read" }

C17_NoLostUpdate ==
    /\ \A i, j \in 1..Len(ep.ids) : i # j => ep.ids[i] # ep.ids[j]
    /\ (\A t \in EpThreads : ~ InSeed(t)) => SEED = 42 + Len(ep.ids)

\* C18: the timestamps handed to one fragment table never go back from one
\* reassembly call to the next.
C18_TimestampsIncrease ==
    [][\A d \in Directions : ep'.stamp[d] >= ep.stamp[d]]_vars

(***************************************************************************)
(* Claims on the boundary glue (GlueSpec)                                  *)
(***************************************************************************)
\* C23: the iterator yields a frame for every ethdriver_rx call that returned
\* 0 or 1 and none for a call that returned -1, and after a call that
\* returned 0 or -1 it makes no further ethdriver_rx call.
C23_IterationEnds ==
    /\ \A i \in 1..Len(glue.log) :
          glue.log[i].returned =>
             (glue.log[i].yielded <=> glue.log[i].status \in { 0, 1 })
    /\ \A i, j \in 1..Len(glue.log) :
          i < j => glue.log[i].status \notin { 0, -1 }

\* C24: the component aborts only for a null buffer pointer or an
\* ethdriver_rx status outside -1, 0, 1 (never for a frame of at most
\* BUFFER_SIZE bytes), and an operation that returned holds no buffer lock.
C24_OnlyNullOrStatusAborts ==
    /\ glue.pc = "aborted" => glue.cause \in { "null", "status" }
    /\ glue.pc = "ready" => glue.held = {}

====
